---- MODULE Spec2Model ----
(***************************************************************************)
(* A model of the open-webui tool plugins: the GitHub connector            *)
(* (src/tools/github.py), the Paperless-ngx search tool                    *)
(* (src/tools/paperless.py), the web content extractor                     *)
(* (src/tools/web_content_extractor.py) and the Alpha Vantage tool         *)
(* (src/tools/alphavantage.py).                                            *)
(*                                                                         *)
(* One tool instance is constructed (Init) with the settings the host      *)
(* supplies; every public operation of the tool is one action.  An action  *)
(* draws the operation's arguments, the caller's callback and the upstream *)
(* responses, runs the whole handler and records what the caller and the   *)
(* upstream observe: the returned string or the exception, the events      *)
(* passed to the callback and the HTTP requests sent.                      *)
(*                                                                         *)
(* Python strings that the code parses are sequences of one-character      *)
(* strings; strings that are only copied are TLA+ strings.                 *)
(***************************************************************************)
EXTENDS Integers, Sequences, FiniteSets, TLC

VARIABLES
    tool,      \* which of the four Tools classes this instance is
    valves,    \* self.valves (and, for the web tool, the has_* flags)
    call,      \* the invocation: operation, arguments, callback, upstream
    pc,        \* "idle" | "returned" | "raised"
    ret,       \* the returned string, or the message of the exception
    events,    \* the dictionaries handed to __event_emitter__, in order
    reqs       \* the HTTP requests sent, in order

vars == <<tool, valves, call, pc, ret, events, reqs>>

----------------------------------------------------------------------------
(* Bounds of the model *)

\* longest owner/repo argument, in characters
MaxRepoLen == 5
\* longest files / inputs argument, in characters
MaxFilesLen == 5
\* the callback may start to fail at its 1st .. MaxFailFrom-th invocation
MaxFailFrom == 2

----------------------------------------------------------------------------
(* Python str operations, on sequences of characters *)

RECURSIVE Str(_)
Str(s) == IF s = <<>> THEN "" ELSE Head(s) \o Str(Tail(s))

RECURSIVE SeqsUpTo(_, _)
SeqsUpTo(S, n) ==
    IF n = 0 THEN {<<>>}
    ELSE LET shorter == SeqsUpTo(S, n - 1)
         IN  shorter \cup {Append(s, c) : s \in {t \in shorter : Len(t) = n - 1}, c \in S}

RECURSIVE lstrip(_)
lstrip(s) == IF s # <<>> /\ Head(s) = " " THEN lstrip(Tail(s)) ELSE s

RECURSIVE rstrip(_)
rstrip(s) ==
    IF s # <<>> /\ s[Len(s)] = " " THEN rstrip(SubSeq(s, 1, Len(s) - 1)) ELSE s

strip(s) == rstrip(lstrip(s))

\* the least index at which sep occurs in s, 0 when it does not
find(s, sep) ==
    LET hits == {i \in 1..(Len(s) - Len(sep) + 1) : SubSeq(s, i, i + Len(sep) - 1) = sep}
    IN  IF hits = {} THEN 0 ELSE CHOOSE i \in hits : \A j \in hits : i <= j

\* s.split(sep)
RECURSIVE split(_, _)
split(s, sep) ==
    LET i == find(s, sep)
    IN  IF i = 0 THEN <<s>>
        ELSE <<SubSeq(s, 1, i - 1)>> \o split(SubSeq(s, i + Len(sep), Len(s)), sep)

\* s.split(sep, 1), for a string that holds sep
split1(s, sep) ==
    LET i == find(s, sep)
    IN  <<SubSeq(s, 1, i - 1), SubSeq(s, i + Len(sep), Len(s))>>

\* sep.join(parts), parts being TLA+ strings
RECURSIVE join(_, _)
join(sep, parts) ==
    IF parts = <<>> THEN ""
    ELSE IF Len(parts) = 1 THEN parts[1]
    ELSE parts[1] \o sep \o join(sep, Tail(parts))

RECURSIVE SelectNonBlank(_)
SelectNonBlank(parts) ==
    IF parts = <<>> THEN <<>>
    ELSE IF strip(Head(parts)) # <<>>
         THEN <<strip(Head(parts))>> \o SelectNonBlank(Tail(parts))
         ELSE SelectNonBlank(Tail(parts))

----------------------------------------------------------------------------
(* The caller's callback and the events it receives *)

\* __event_emitter__: None, or a callable that raises from its failFrom-th
\* invocation on (0: it never raises)
NoCallback == [present |-> FALSE, failFrom |-> 0]

Callbacks ==
    {NoCallback} \cup {[present |-> TRUE, failFrom |-> k] : k \in 0..MaxFailFrom}

\* {"type": "status", "data": {"description": d, "done": done, "hidden": hidden}}
StatusEvent(d, done, hidden) ==
    [type |-> "status", description |-> d, done |-> done, hidden |-> hidden,
     status |-> "", name |-> "", url |-> ""]

\* a citation whose document is the name of its source
CitationEvent_named(doc, name, url) ==
    [type |-> "citation", description |-> name, done |-> FALSE, hidden |-> FALSE,
     status |-> "", name |-> name, url |-> url]

\* {"type": "citation", "data": {"document": [doc], ..., "source": {name, url}}}
\* description holds the document text
CitationEvent(doc, name, url) ==
    [type |-> "citation", description |-> doc, done |-> FALSE, hidden |-> FALSE,
     status |-> "", name |-> name, url |-> url]

----------------------------------------------------------------------------
(* Upstream: what the requests library hands back for one request *)

\* a connection failure, a timeout, or a response with a status code and a body:
\*   "object"  a JSON document of the shape the endpoint documents (in data)
\*   "empty"   the empty JSON container ({} or [])
\*   "scalar"  a JSON number, which is no container
\*   "notjson" a body that is no JSON, such as an HTML error page
\*   "nobody"  no body at all
Http(code, body, data) == [kind |-> "http", code |-> code, body |-> body, data |-> data]

\* the payload of a response that carries none
NoData == [none |-> TRUE]

ConnectionError == [kind |-> "connection", code |-> 0, body |-> "nobody", data |-> NoData]

Timeout == [kind |-> "timeout", code |-> 0, body |-> "nobody", data |-> NoData]

\* responses that do not depend on the endpoint
FailureResponses ==
    {ConnectionError, Timeout, Http(200, "notjson", NoData), Http(200, "scalar", NoData),
     Http(204, "nobody", NoData), Http(304, "nobody", NoData)}
    \cup {Http(c, "notjson", NoData) : c \in {401, 403, 404, 422, 500}}

\* a response nobody reads: stands for the requests the handler never sent
Unread == Http(200, "empty", NoData)

\* the upstream of a handler that sends at most n requests, each answered from
\* R when it is sent
Upstreams(R, n) == [1..n -> R \cup {Unread}]

\* d.get(k, default) on the decoded body of r, a dict
Get(r, k, default) ==
    IF r.body = "object" /\ k \in DOMAIN r.data THEN r.data[k] ELSE default

\* str(e) of the AttributeError or TypeError a JSON number raises when used as a
\* dict or a list
NotAContainer == "'int' object is not a container"

\* response.raise_for_status(): HTTPError for 4xx and 5xx
raise_for_status(r) == r.code >= 400 /\ r.code < 600

\* response.json() succeeds
has_json(r) == r.body \in {"object", "empty", "scalar"}

\* str(e) of what requests.get and friends, or response.json(), raise
TransportError(r) ==
    IF r.kind = "connection" THEN "Connection refused"
    ELSE IF r.kind = "timeout" THEN "Read timed out"
    ELSE "Expecting value: line 1 column 1 (char 0)"

----------------------------------------------------------------------------
(* The run of one handler *)

\* pc: "run" | "ret" (val is the returned string) | "exc" (val is str(e))
Start(cb, up) ==
    [pc |-> "run", val |-> "", events |-> <<>>, reqs |-> <<>>, up |-> up,
     cb |-> cb, resp |-> Unread, out |-> ""]

\* output_parts.append(part)
Append2(c, part) == IF c.pc = "run" THEN [c EXCEPT !.out = @ \o part] ELSE c

\* try: <c> except Exception: pass
Swallow(c) == IF c.pc = "exc" THEN [c EXCEPT !.pc = "run", !.val = ""] ELSE c

Return(c, s) == IF c.pc = "run" THEN [c EXCEPT !.pc = "ret", !.val = s] ELSE c

Raise(c, msg) == IF c.pc = "run" THEN [c EXCEPT !.pc = "exc", !.val = msg] ELSE c

\* await __event_emitter__(ev), under "if __event_emitter__"
Emit(c, ev) ==
    IF c.pc # "run" \/ ~c.cb.present THEN c
    ELSE LET n == Len(c.events) + 1
             called == [c EXCEPT !.events = Append(@, ev)]
         IN  IF c.cb.failFrom # 0 /\ n >= c.cb.failFrom
             THEN Raise(called, "callback failed")
             ELSE called

\* F(c), c being the context a step of the handler ran to: the steps after it
\* read it as the one value it is
Bind(c, F(_)) == F(c)

\* try: <body, already run as c>  except Exception as e: <Handler(c, str(e))>
Except(c, Handler(_, _)) ==
    IF c.pc = "exc" THEN Handler([c EXCEPT !.pc = "run", !.val = ""], c.val) ELSE c

\* an insertion-ordered dict as a sequence of <<key, value>>: d[k] = v
DictSet(d, k, v) ==
    IF \E i \in 1..Len(d) : d[i][1] = k
    THEN [i \in 1..Len(d) |-> IF d[i][1] = k THEN <<k, v>> ELSE d[i]]
    ELSE Append(d, <<k, v>>)

Keys(d) == [i \in 1..Len(d) |-> d[i][1]]

----------------------------------------------------------------------------
(* Python built-ins the handlers use *)

\* sorted(items, key=...): a stable sort, Less(a, b) being key(a) < key(b)
Insert(sorted, x, Less(_, _)) ==
    LET after == {i \in 1..Len(sorted) : Less(x, sorted[i])}
        k == IF after = {} THEN Len(sorted) + 1
             ELSE CHOOSE i \in after : \A j \in after : i <= j
    IN  SubSeq(sorted, 1, k - 1) \o <<x>> \o SubSeq(sorted, k, Len(sorted))

Sorted(items, Less(_, _)) ==
    LET prefix[n \in 0..Len(items)] ==
            IF n = 0 THEN <<>> ELSE Insert(prefix[n - 1], items[n], Less)
    IN  prefix[Len(items)]

\* the letters of the model, in code point order: str comparison and case
Lower == <<"a", "b", "c", "d", "e", "f", "g", "h", "i", "j", "k", "l", "m",
           "n", "o", "p", "q", "r", "s", "t", "u", "v", "w", "x", "y", "z">>

Upper == <<"A", "B", "C", "D", "E", "F", "G", "H", "I", "J", "K", "L", "M",
           "N", "O", "P", "Q", "R", "S", "T", "U", "V", "W", "X", "Y", "Z">>

IndexIn(ch, letters) ==
    IF \E i \in 1..Len(letters) : letters[i] = ch
    THEN CHOOSE i \in 1..Len(letters) : letters[i] = ch
    ELSE 0

upper_char(ch) == IF IndexIn(ch, Lower) # 0 THEN Upper[IndexIn(ch, Lower)] ELSE ch

lower_char(ch) == IF IndexIn(ch, Upper) # 0 THEN Lower[IndexIn(ch, Upper)] ELSE ch

\* s.lower()
lower(s) == [i \in 1..Len(s) |-> lower_char(s[i])]

\* s.capitalize()
capitalize(s) ==
    [i \in 1..Len(s) |-> IF i = 1 THEN upper_char(s[i]) ELSE lower_char(s[i])]

\* s.replace(old, new), old and new single characters
replace(s, old, new) == [i \in 1..Len(s) |-> IF s[i] = old THEN new ELSE s[i]]

\* the code point of a character of the model: space, "/", digits, upper
\* case, "_", lower case
ord(ch) ==
    IF ch = " " THEN 32
    ELSE IF ch = "/" THEN 47
    ELSE IF ch = "=" THEN 61
    ELSE IF ch = "_" THEN 95
    ELSE IF ch = "|" THEN 124
    ELSE IF IndexIn(ch, Upper) # 0 THEN 64 + IndexIn(ch, Upper)
    ELSE IF IndexIn(ch, Lower) # 0 THEN 96 + IndexIn(ch, Lower)
    ELSE 63

\* a < b on str
RECURSIVE str_lt(_, _)
str_lt(a, b) ==
    IF b = <<>> THEN FALSE
    ELSE IF a = <<>> THEN TRUE
    ELSE IF ord(Head(a)) # ord(Head(b)) THEN ord(Head(a)) < ord(Head(b))
    ELSE str_lt(Tail(a), Tail(b))

\* f"{num / den:.1f}": the quotient rounded to tenths, ties to even (the
\* quotients of the model are exact in binary floating point)
OneDecimal(num, den) ==
    LET q == (10 * num) \div den
        r == (10 * num) % den
        tenths == IF 2 * r > den \/ (2 * r = den /\ q % 2 = 1) THEN q + 1 ELSE q
    IN  ToString(tenths \div 10) \o "." \o ToString(tenths % 10)

----------------------------------------------------------------------------
(* src/tools/github.py *)

\* Valves.max_file_size
max_file_size == 100000

\* the timeout of every request of _make_request, in seconds
gh_timeout == 30

base_url == "https://api.github.com"

GhValves ==
    [github_token : {"", "ghp_token"}, enable_status_updates : BOOLEAN,
     default_branch : {"main"}]

\* __user__: no "valves" key, a UserValves instance, or a value of another type
GhUserValves(show_line_numbers, syntax_highlighting) ==
    [cls |-> "UserValves", show_line_numbers |-> show_line_numbers,
     syntax_highlighting |-> syntax_highlighting]

GhUsers ==
    {[cls |-> "absent", show_line_numbers |-> FALSE, syntax_highlighting |-> FALSE],
     [cls |-> "dict", show_line_numbers |-> FALSE, syntax_highlighting |-> FALSE],
     GhUserValves(FALSE, FALSE)}

\* __user__.get("valves", self.UserValves()), replaced by the defaults unless
\* it is a UserValves
gh_user_valves(user) ==
    IF user.cls = "UserValves" THEN user ELSE GhUserValves(TRUE, TRUE)

_get_headers(v) ==
    IF v.github_token # "" THEN "Bearer " \o v.github_token ELSE ""

\* every HTTP error is reported with its status code only
gh_http_error_unclassified(status_code) == "API error: " \o ToString(status_code)

\* except requests.exceptions.HTTPError as e: the message of the Exception
\* raised for e.response.status_code
gh_http_error(status_code) ==
    IF status_code = 401 THEN "Authentication failed"
    ELSE IF status_code = 404 THEN "Not found"
    ELSE IF status_code = 403 THEN "Rate limit or access forbidden"
    ELSE "API error: " \o ToString(status_code)

gh_make_request(c, v, method, endpoint, params, data) ==
    IF c.pc # "run" THEN c
    ELSE IF method \notin {"GET", "POST", "PATCH", "DELETE"}
    THEN Raise(c, "Request failed: Unsupported HTTP method: " \o method)
    ELSE
    LET r == Head(c.up)
        sent == [c EXCEPT !.up = Tail(@),
                          !.resp = r,
                          !.reqs = Append(@, [method |-> method,
                                              url |-> base_url \o endpoint,
                                              params |-> params,
                                              json |-> data,
                                              authorization |-> _get_headers(v),
                                              timeout |-> gh_timeout])]
    IN  IF r.kind # "http" THEN Raise(sent, "Request failed: " \o TransportError(r))
        ELSE IF raise_for_status(r) THEN Raise(sent, gh_http_error(r.code))
        ELSE IF method = "DELETE"
        THEN [sent EXCEPT !.resp = Http(r.code, "object", [deleted |-> TRUE])]
        ELSE IF ~has_json(r) THEN Raise(sent, "Request failed: " \o TransportError(r))
        ELSE sent

_detect_language(ext) ==
    CASE ext = "py" -> "python"
      [] ext = "md" -> "markdown"
      [] ext = "sh" -> "bash"
      [] OTHER -> ""

\* the first two parts of a repo with more than two are taken
_split_repo_first_two(repo) ==
    LET parts == SelectNonBlank(split(repo, <<"/">>))
    IN  IF Len(parts) < 2 THEN <<>> ELSE <<parts[1], parts[2]>>

\* the token is never found missing
pl_token_never_missing(v) == FALSE

_split_repo(repo) ==
    LET parts == SelectNonBlank(split(repo, <<"/">>))
    IN  IF Len(parts) # 2 THEN <<>> ELSE <<parts[1], parts[2]>>

\* len(str(n))
RECURSIVE Digits(_)
Digits(n) == IF n < 10 THEN 1 ELSE 1 + Digits(n \div 10)

\* f"{idx:>{width}}"
RECURSIVE PadLeft(_, _)
PadLeft(s, width) == IF Len(s) >= width THEN s ELSE PadLeft(" " \o s, width)

RECURSIVE NumberedLines(_, _, _)
NumberedLines(lines, idx, width) ==
    IF idx > Len(lines) THEN ""
    ELSE PadLeft(ToString(idx), width) \o " | " \o lines[idx] \o "\n"
         \o NumberedLines(lines, idx + 1, width)

\* content is given as content.split("\n"); a TLA+ string cannot hold the
\* backquote, which is written ' in every string of the model
_render_code_block(lines, lang, show_line_numbers, syntax_highlighting) ==
    LET fence_lang == IF syntax_highlighting /\ lang # "" THEN lang ELSE ""
        content == join("\n", lines)
        endsNewline == Len(lines) > 1 /\ lines[Len(lines)] = ""
    IN  "'''" \o fence_lang \o "\n"
        \o (IF show_line_numbers THEN NumberedLines(lines, 1, Digits(Len(lines)))
            ELSE content \o (IF endsNewline THEN "" ELSE "\n"))
        \o "'''\n"

\* a status event sent whatever the setting
gh_status_unguarded(c, v, description, done, hidden) ==
    Emit(c, StatusEvent(description, done, hidden))

\* "if __event_emitter__ and self.valves.enable_status_updates: await ..."
gh_status(c, v, description, done, hidden) ==
    IF v.enable_status_updates THEN Emit(c, StatusEvent(description, done, hidden)) ELSE c

\* "except Exception as e: return f"Error: {str(e)}""
gh_error(c, msg) == Return(c, "Error: " \o msg)

\* urllib.parse.quote on the paths of the model
quote(path) ==
    CASE path = "docs/my notes.md" -> "docs/my%20notes.md"
      [] OTHER -> path

\* the bodies the contents endpoint answers with for a path
FileData(type, size, encoded, lines) ==
    [type |-> type, size |-> size, encoded |-> encoded, lines |-> lines,
     name |-> "entry"]

FileResponses ==
    {Http(200, "object", d) :
        d \in {FileData("file", 12, "utf8", <<"x = 1", "y = 2", "">>),
               FileData("file", max_file_size + 1, "utf8", <<"x = 1">>),
               FileData("file", 7, "binary", <<>>),
               FileData("file", 7, "badpadding", <<>>),
               FileData("file", 0, "", <<>>),
               FileData("dir", 0, "", <<>>)}}
    \cup {Http(200, "empty", NoData)}

\* a refusal that does not look at the size of the file
file_refusal_unsized(file_path, file_data) ==
    IF Get(file_data, "type", "") # "file" THEN file_path \o " is not a file"
    ELSE IF Get(file_data, "encoded", "") = "" THEN "File content is empty"
    ELSE IF Get(file_data, "encoded", "") = "binary"
    THEN "Binary file (" \o ToString(Get(file_data, "size", 0)) \o " bytes)"
    ELSE ""

\* the string read_file returns instead of the file, "" when it renders it:
\* encoded is "binary" when the bytes are no UTF-8
file_refusal(file_path, file_data) ==
    IF Get(file_data, "type", "") # "file" THEN file_path \o " is not a file"
    ELSE IF Get(file_data, "size", 0) > max_file_size
    THEN "File too large: " \o ToString(Get(file_data, "size", 0)) \o " bytes"
    ELSE IF Get(file_data, "encoded", "") = "" THEN "File content is empty"
    ELSE IF Get(file_data, "encoded", "") = "binary"
    THEN "Binary file (" \o ToString(Get(file_data, "size", 0)) \o " bytes)"
    ELSE ""

read_file(v, a, cb, up) ==
    LET user_valves == gh_user_valves(a.user)
        file_path == join(".", a.file_path)
    IN  Bind(gh_status(Start(cb, up), v, "Reading " \o file_path, FALSE, FALSE), LAMBDA c1 :
    LET owner_repo == _split_repo(a.repo)
        endpoint == "/repos/" \o Str(owner_repo[1]) \o "/" \o Str(owner_repo[2])
                    \o "/contents/" \o quote(file_path)
        params == IF a.branch # "" THEN <<<<"ref", a.branch>>>> ELSE <<>>
    IN  Bind(gh_make_request(c1, v, "GET", endpoint, params, NoData), LAMBDA c2 :
    LET file_data == c2.resp
        file_size == Get(file_data, "size", 0)
        encoded == Get(file_data, "encoded", "")
        ext == IF Len(a.file_path) > 1 THEN a.file_path[Len(a.file_path)] ELSE ""
        lang == _detect_language(ext)
        output ==
            "# " \o Get(file_data, "name", file_path) \o "\n\n"
            \o "**Repository:** " \o Str(a.repo) \o "\n"
            \o "**Path:** '" \o file_path \o "'\n"
            \o (IF a.branch # "" THEN "**Branch:** " \o a.branch \o "\n" ELSE "")
            \o "**Size:** " \o ToString(file_size) \o " bytes\n\n"
            \o "---\n\n"
            \o _render_code_block(Get(file_data, "lines", <<>>), lang,
                                  user_valves.show_line_numbers,
                                  user_valves.syntax_highlighting)
        file_url == "https://github.com/" \o Str(a.repo) \o "/blob/"
                    \o (IF a.branch # "" THEN a.branch ELSE v.default_branch)
                    \o "/" \o file_path
    IN  Bind(Emit(c2, CitationEvent(output, Str(a.repo) \o "/" \o file_path, file_url)), LAMBDA c3 :
    Bind(gh_status(c3, v, "Done", TRUE, TRUE), LAMBDA c4 :
    LET body ==
            IF owner_repo = <<>> THEN Return(c1, "Invalid repo format. Use owner/repo")
            ELSE IF c2.pc # "run" THEN c2
            ELSE IF file_data.body = "scalar" THEN Raise(c2, NotAContainer)
            ELSE IF file_refusal(file_path, file_data) # ""
            THEN Return(c2, file_refusal(file_path, file_data))
            ELSE IF encoded = "badpadding" THEN Raise(c2, "Incorrect padding")
            ELSE Return(c4, output)
        handler(c, e) ==
            Return(gh_status(c, v, "Error: " \o e, TRUE, FALSE), "Error: " \o e)
    IN  IF c1.pc # "run" THEN c1 ELSE Except(body, handler)))))

\* A size is a sequence of base-1024 digits, the most significant first and
\* not 0 unless the size is 0: the sizes of the TB range do not fit the
\* integers of the model checker.
RECURSIVE Base1024(_)
Base1024(n) == IF n < 1024 THEN <<n>> ELSE Base1024(n \div 1024) \o <<n % 1024>>

\* the value of a short sequence of digits
RECURSIVE ValueOf(_)
ValueOf(ds) ==
    IF ds = <<>> THEN 0 ELSE 1024 * ValueOf(SubSeq(ds, 1, Len(ds) - 1)) + ds[Len(ds)]

\* ten times the fraction 0.ds: the digits of its fraction, and its integer
\* part as carry
RECURSIVE TimesTen(_)
TimesTen(ds) ==
    IF ds = <<>> THEN [digits |-> <<>>, carry |-> 0]
    ELSE LET low == TimesTen(Tail(ds))
             here == 10 * Head(ds) + low.carry
         IN  [digits |-> <<here % 1024>> \o low.digits, carry |-> here \div 1024]

\* the order of 2 * 0.ds against 1: "below", "half" or "above"
AgainstHalf(ds) ==
    IF ds = <<>> \/ Head(ds) < 512 THEN "below"
    ELSE IF Head(ds) = 512 /\ \A i \in 2..Len(ds) : ds[i] = 0 THEN "half"
    ELSE "above"

\* the parts of the size, cut below the tenths instead of rounded
SizeParts_floor(ds, k) ==
    [whole |-> ValueOf(SubSeq(ds, 1, Len(ds) - k)),
     tenth |-> TimesTen(SubSeq(ds, Len(ds) - k + 1, Len(ds))).carry]

\* the parts of f"{size:.1f}" after k divisions by 1024.0: the quotient is
\* exact in binary floating point, and is rounded to tenths, ties to even
SizeParts(ds, k) ==
    LET whole == ValueOf(SubSeq(ds, 1, Len(ds) - k))
        scaled == TimesTen(SubSeq(ds, Len(ds) - k + 1, Len(ds)))
        order == AgainstHalf(scaled.digits)
        up == order = "above" \/ (order = "half" /\ scaled.carry % 2 = 1)
        tenth == IF up THEN scaled.carry + 1 ELSE scaled.carry
    IN  IF tenth = 10 THEN [whole |-> whole + 1, tenth |-> 0]
        ELSE [whole |-> whole, tenth |-> tenth]

\* _format_size on the digits of size: the loop divides by 1024.0 until the
\* quotient is below 1024 or the unit is TB
format_size_digits(ds) ==
    LET k == IF Len(ds) > 4 THEN 4 ELSE Len(ds) - 1
        unit == <<"B", "KB", "MB", "GB", "TB">>[k + 1]
        parts == SizeParts(ds, k)
    IN  ToString(parts.whole) \o "." \o ToString(parts.tenth) \o " " \o unit

_format_size(size) == format_size_digits(Base1024(size))

\* _format_workflow_status with the conclusion shown as it was received
_format_workflow_status_verbatim(status, conclusion) ==
    LET text == strip(replace(IF status # <<>> THEN status ELSE <<"u", "n", "k", "n", "o", "w", "n">>, "_", " "))
        status_text == IF text # <<>> THEN capitalize(text) ELSE <<"U", "n", "k", "n", "o", "w", "n">>
    IN  IF conclusion # <<>> /\ conclusion # <<"N", "/", "A">>
        THEN status_text \o <<" ", "(">> \o conclusion \o <<")">>
        ELSE status_text

\* status and conclusion are strings of characters, None being <<>>
_format_workflow_status(status, conclusion) ==
    LET text == strip(replace(IF status # <<>> THEN status ELSE <<"u", "n", "k", "n", "o", "w", "n">>, "_", " "))
        status_text == IF text # <<>> THEN capitalize(text) ELSE <<"U", "n", "k", "n", "o", "w", "n">>
        conclusion_text == strip(replace(conclusion, "_", " "))
    IN  IF conclusion # <<>> /\ conclusion # <<"N", "/", "A">> /\ conclusion_text # <<>>
        THEN status_text \o <<" ", "(">> \o conclusion_text \o <<")">>
        ELSE status_text

\* the parse of "k=v|||k2=v2": the dict, or the message of the ValueError
ParseOk(entries) == [ok |-> TRUE, entries |-> entries, error |-> ""]

ParseError(msg) == [ok |-> FALSE, entries |-> <<>>, error |-> msg]

\* a segment without "=" is skipped like a blank one
RECURSIVE ParseSegments_lenient(_, _)
ParseSegments_lenient(segments, entries) ==
    IF segments = <<>> THEN ParseOk(entries)
    ELSE LET segment == strip(Head(segments))
         IN  IF segment = <<>> \/ find(segment, <<"=">>) = 0
             THEN ParseSegments_lenient(Tail(segments), entries)
             ELSE LET kv == split1(segment, <<"=">>)
                  IN  ParseSegments_lenient(Tail(segments),
                                            DictSet(entries, Str(strip(kv[1])),
                                                    Str(strip(kv[2]))))

\* for entry in inputs.split("|||"): ...
RECURSIVE ParseSegments(_, _)
ParseSegments(segments, entries) ==
    IF segments = <<>> THEN ParseOk(entries)
    ELSE LET segment == strip(Head(segments))
         IN  IF segment = <<>> THEN ParseSegments(Tail(segments), entries)
             ELSE IF find(segment, <<"=">>) = 0
             THEN ParseError("Invalid input format segment: '" \o Str(segment) \o "'")
             ELSE LET kv == split1(segment, <<"=">>)
                  IN  ParseSegments(Tail(segments),
                                    DictSet(entries, Str(strip(kv[1])), Str(strip(kv[2]))))

\* json.loads on the strings of the model: "{}" is the one JSON document
_parse_workflow_inputs(inputs) ==
    LET stripped == strip(inputs)
    IN  IF inputs = <<>> \/ stripped = <<>> THEN ParseOk(<<>>)
        ELSE IF Head(stripped) = "{"
        THEN IF stripped = <<"{", "}">> THEN ParseOk(<<>>)
             ELSE ParseError("Invalid JSON for inputs: Expecting property name")
        ELSE ParseSegments(split(stripped, <<"|", "|", "|">>), <<>>)

\* the loop of create_gist and update_gist over files.split("|||"): the
\* files dict, or the string the handler returns from inside the loop
RECURSIVE GistEntries(_, _, _)
GistEntries(file_entries, files_dict, rejectEmptyName) ==
    IF file_entries = <<>> THEN ParseOk(files_dict)
    ELSE LET entry == strip(Head(file_entries))
         IN  IF find(entry, <<"=">>) = 0
             THEN ParseError("Invalid file format. Use: filename.ext=content|||filename2.ext=content2")
             ELSE LET kv == split1(entry, <<"=">>)
                      filename == Str(strip(kv[1]))
                      content == Str(strip(kv[2]))
                  IN  IF rejectEmptyName /\ filename = ""
                      THEN ParseError("Filename cannot be empty")
                      ELSE GistEntries(Tail(file_entries),
                                       DictSet(files_dict, filename, content),
                                       rejectEmptyName)

\* the entries of a directory listing
Entry(type, name, size) == [type |-> type, name |-> name, size |-> size]

RECURSIVE Concat(_)
Concat(parts) == IF parts = <<>> THEN "" ELSE Head(parts) \o Concat(Tail(parts))

ListingResponses ==
    {Http(200, "object", [items |-> items]) :
        items \in {<<Entry("file", <<"b">>, 1536), Entry("dir", <<"s", "r", "c">>, 0),
                     Entry("file", <<"R", "E", "A", "D", "M", "E">>, 12), Entry("dir", <<"d", "o", "c", "s">>, 0),
                     Entry("symlink", <<"l", "n">>, 0)>>,
                   <<Entry("symlink", <<"l", "n">>, 0)>>}}
    \cup {Http(200, "object", [items |-> <<>>, type |-> "file"]), Http(200, "empty", NoData)}

\* the orders upstream may return items in
Shuffles(items) ==
    {[i \in 1..Len(items) |-> items[p[i]]] : p \in Permutations(1..Len(items))}

\* the entries of one directory, in every order
ShuffledListings ==
    {Http(200, "object", [items |-> items]) :
        items \in Shuffles(<<Entry("file", <<"b">>, 1536), Entry("dir", <<"s", "r", "c">>, 0),
                              Entry("file", <<"R", "E", "A", "D", "M", "E">>, 12),
                              Entry("dir", <<"d", "o", "c", "s">>, 0),
                              Entry("symlink", <<"l", "n">>, 0)>>)}

list_repository_files(v, a, cb, up) ==
    Bind(gh_status(Start(cb, up), v, "Listing " \o Str(a.repo), FALSE, FALSE), LAMBDA c1 :
    LET owner_repo == _split_repo(a.repo)
        endpoint == "/repos/" \o Str(owner_repo[1]) \o "/" \o Str(owner_repo[2])
                    \o "/contents/" \o (IF a.path # "" THEN quote(a.path) ELSE "")
        params == IF a.branch # "" THEN <<<<"ref", a.branch>>>> ELSE <<>>
    IN  Bind(gh_make_request(c1, v, "GET", endpoint, params, NoData), LAMBDA c2 :
    LET contents == Get(c2.resp, "items", <<>>)
        dirs == SelectSeq(contents, LAMBDA item : item.type = "dir")
        files == SelectSeq(contents, LAMBDA item : item.type = "file")
        byName(x, y) == str_lt(x.name, y.name)
        output ==
            "# Contents: " \o Str(a.repo) \o "/" \o (IF a.path # "" THEN a.path ELSE "root")
            \o "\n\n"
            \o (IF a.branch # "" THEN "**Branch:** " \o a.branch \o "\n\n" ELSE "")
            \o (IF dirs # <<>>
                THEN "## Directories\n\n"
                     \o Concat([i \in 1..Len(dirs) |->
                                  "- **" \o Str(Sorted(dirs, byName)[i].name) \o "/**\n"])
                     \o "\n"
                ELSE "")
            \o (IF files # <<>>
                THEN "## Files\n\n"
                     \o Concat([i \in 1..Len(files) |->
                                  "- '" \o Str(Sorted(files, byName)[i].name) \o "' ("
                                  \o _format_size(Sorted(files, byName)[i].size) \o ")\n"])
                ELSE "")
            \o (IF dirs = <<>> /\ files = <<>> THEN "*Empty directory*\n" ELSE "")
        body ==
            IF owner_repo = <<>> THEN Return(c1, "Invalid repo format. Use owner/repo")
            ELSE IF c2.pc # "run" THEN c2
            ELSE IF Get(c2.resp, "type", "") = "file"
            THEN Return(c2, a.path \o " is a file. Use read_file to view it")
            ELSE IF c2.resp.body = "scalar" THEN Raise(c2, NotAContainer)
            ELSE Return(gh_status(c2, v, "Done", TRUE, TRUE), output)
    IN  IF c1.pc # "run" THEN c1 ELSE Except(body, gh_error)))

RepoResponses ==
    {Http(200, "object",
          [full_name |-> "o/o", description |-> "A repository", login |-> "o",
           default_branch |-> "main", language |-> "Python", stargazers_count |-> 3,
           forks_count |-> 1, private |-> TRUE, html_url |-> "https://github.com/o/o"]),
     Http(200, "empty", NoData)}

LanguagesResponses ==
    {Http(200, "object", [langs |-> <<<<"Shell", 100>>, <<"Python", 300>>>>]),
     Http(200, "empty", NoData)}

get_repository_info(v, a, cb, up) ==
    Bind(gh_status(Start(cb, up), v, "Fetching " \o Str(a.repo), FALSE, FALSE), LAMBDA c1 :
    LET owner_repo == _split_repo(a.repo)
        path == "/repos/" \o Str(owner_repo[1]) \o "/" \o Str(owner_repo[2])
    IN  Bind(gh_make_request(c1, v, "GET", path, <<>>, NoData), LAMBDA c2 :
    LET repo_data == c2.resp
        description == Get(repo_data, "description", "")
        details ==
            "# " \o Get(repo_data, "full_name", Str(a.repo)) \o "\n\n"
            \o (IF description # "" THEN description \o "\n\n" ELSE "")
            \o "## Details\n\n"
            \o "**Owner:** " \o Get(repo_data, "login", "Unknown") \o "\n"
            \o "**Branch:** " \o Get(repo_data, "default_branch", "main") \o "\n"
            \o "**Language:** " \o Get(repo_data, "language", "Not specified") \o "\n"
            \o "**Stars:** " \o ToString(Get(repo_data, "stargazers_count", 0)) \o "\n"
            \o "**Forks:** " \o ToString(Get(repo_data, "forks_count", 0)) \o "\n"
            \o "**Visibility:** "
            \o (IF Get(repo_data, "private", FALSE) THEN "Private" ELSE "Public") \o "\n"
            \o "\n**URL:** " \o Get(repo_data, "html_url", "") \o "\n"
    \* try: langs = self._make_request(...) ... except Exception: pass
    IN  Bind(gh_make_request(c2, v, "GET", path \o "/languages", <<>>, NoData), LAMBDA c3 :
    LET langs == Get(c3.resp, "langs", <<>>)
        RECURSIVE Sum(_)
        Sum(items) == IF items = <<>> THEN 0 ELSE Head(items)[2] + Sum(Tail(items))
        total == Sum(langs)
        ranked == Sorted(langs, LAMBDA x, y : x[2] > y[2])
        languages ==
            IF c3.pc # "run" \/ c3.resp.body = "scalar" \/ langs = <<>> THEN ""
            ELSE "\n## Languages\n\n"
                 \o Concat([i \in 1..Len(ranked) |->
                              "- **" \o ranked[i][1] \o "**: "
                              \o (IF total > 0 THEN OneDecimal(ranked[i][2] * 100, total)
                                  ELSE "0.0")
                              \o "%\n"])
    IN  Bind([c3 EXCEPT !.pc = "run", !.val = ""], LAMBDA c4 :
    LET body ==
            IF owner_repo = <<>> THEN Return(c1, "Invalid repo format. Use owner/repo")
            ELSE IF c2.pc # "run" THEN c2
            ELSE IF repo_data.body = "scalar" THEN Raise(c2, NotAContainer)
            ELSE Return(gh_status(c4, v, "Done", TRUE, TRUE), details \o languages)
    IN  IF c1.pc # "run" THEN c1 ELSE Except(body, gh_error)))))

\* a gist: its files are <<filename, lines of the content, language, size>>
Gist(id, description, files) ==
    [id |-> id, description |-> description, public |-> TRUE, login |-> "o",
     created_at |-> "2024-01-01T00:00:00Z", updated_at |-> "2024-01-02T00:00:00Z",
     html_url |-> "https://gist.github.com/" \o id, files |-> files]

GistFile(filename, lines, language) ==
    [filename |-> filename, lines |-> lines, language |-> language, size |-> 5]

GistListResponses ==
    {Http(200, "object",
          [gists |-> <<Gist("g1", "", <<GistFile("a.py", <<"x">>, "Python")>>),
                       Gist("g2", "Notes",
                            <<GistFile("a", <<"x">>, ""), GistFile("b", <<"x">>, ""),
                              GistFile("c", <<"x">>, ""), GistFile("d", <<"x">>, "")>>)>>]),
     Http(200, "empty", NoData)}

\* min(a, b)
min(a, b) == IF a < b THEN a ELSE b

Limits == {0, 10, 100, 101}

gh_token_missing(v) == v.github_token = ""

list_my_gists(v, a, cb, up) ==
    Bind(gh_status(Start(cb, up), v, "Fetching your gists", FALSE, FALSE), LAMBDA c1 :
    Bind(gh_make_request(c1, v, "GET", "/gists",
                              <<<<"per_page", ToString(min(a.limit, 100))>>>>, NoData), LAMBDA c2 :
    LET gists == Get(c2.resp, "gists", <<>>)
        file_list(files) ==
            join(", ", [i \in 1..min(Len(files), 3) |-> files[i].filename])
            \o (IF Len(files) > 3 THEN " (+" \o ToString(Len(files) - 3) \o " more)" ELSE "")
        item(idx) ==
            LET gist == gists[idx]
            IN  "## " \o ToString(idx) \o ". "
                \o (IF gist.description # "" THEN gist.description ELSE "No description")
                \o "\n\n"
                \o "**ID:** '" \o gist.id \o "'\n"
                \o "**Visibility:** " \o (IF gist.public THEN "Public" ELSE "Secret") \o "\n"
                \o "**Files:** " \o file_list(gist.files) \o "\n"
                \o "**Created:** " \o gist.created_at \o "\n"
                \o "**URL:** " \o gist.html_url \o "\n\n"
                \o "---\n\n"
        output ==
            "# Your Gists (" \o ToString(Len(gists)) \o " shown)\n\n"
            \o Concat([idx \in 1..Len(gists) |-> item(idx)])
        body ==
            IF c2.pc # "run" THEN c2
            ELSE IF c2.resp.body = "empty" THEN Return(c2, "No gists found")
            ELSE IF c2.resp.body = "scalar" THEN Raise(c2, NotAContainer)
            ELSE Return(gh_status(c2, v, "Done", TRUE, TRUE), output)
    IN  IF gh_token_missing(v)
        THEN Return(Start(cb, up), "GitHub token required to list your gists")
        ELSE IF c1.pc # "run" THEN c1 ELSE Except(body, gh_error)))

GistResponses ==
    {Http(200, "object",
          Gist("g1", "Notes", <<GistFile("a.py", <<"x = 1">>, "Python"),
                                GistFile("b", <<"y", "">>, "")>>)),
     Http(200, "empty", NoData)}

get_gist(v, a, cb, up) ==
    LET user_valves == gh_user_valves(a.user)
    IN  Bind(gh_status(Start(cb, up), v, "Fetching gist " \o a.gist_id, FALSE, FALSE), LAMBDA c1 :
    Bind(gh_make_request(c1, v, "GET", "/gists/" \o a.gist_id, <<>>, NoData), LAMBDA c2 :
    LET gist == c2.resp
        description ==
            IF Get(gist, "description", "") # "" THEN gist.data.description
            ELSE "Untitled Gist"
        files == Get(gist, "files", <<>>)
        file(i) ==
            LET lang == files[i].language
            IN  "## File: " \o files[i].filename \o "\n\n"
                \o "**Size:** " \o ToString(files[i].size) \o " bytes\n"
                \o (IF lang # "" THEN "**Language:** " \o lang \o "\n" ELSE "")
                \o "\n"
                \o _render_code_block(files[i].lines, lang,
                                      user_valves.show_line_numbers,
                                      user_valves.syntax_highlighting)
                \o "\n"
        output ==
            "# " \o description \o "\n\n"
            \o "**ID:** '" \o Get(gist, "id", "") \o "'\n"
            \o "**Visibility:** "
            \o (IF Get(gist, "public", FALSE) THEN "Public" ELSE "Secret") \o "\n"
            \o "**Owner:** " \o Get(gist, "login", "Anonymous") \o "\n"
            \o "**Created:** " \o Get(gist, "created_at", "Unknown") \o "\n"
            \o "**Updated:** " \o Get(gist, "updated_at", "Unknown") \o "\n"
            \o "**URL:** " \o Get(gist, "html_url", "") \o "\n\n"
            \o "---\n\n"
            \o Concat([i \in 1..Len(files) |-> file(i)])
    IN  Bind(Emit(c2, CitationEvent(output, "Gist: " \o description,
                                     Get(gist, "html_url", ""))), LAMBDA c3 :
    LET body ==
            IF c2.pc # "run" THEN c2
            ELSE IF gist.body = "scalar" THEN Raise(c2, NotAContainer)
            ELSE IF gist.body = "empty" THEN Raise(c2, "'id'")
            ELSE Return(gh_status(c3, v, "Done", TRUE, TRUE), output)
    IN  IF c1.pc # "run" THEN c1 ELSE Except(body, gh_error))))

CreatedResponses ==
    {Http(201, "object", Gist("g9", "Notes", <<>>)), Http(200, "empty", NoData)}

create_gist(v, a, cb, up) ==
    Bind(gh_status(Start(cb, up), v, "Creating gist", FALSE, FALSE), LAMBDA c1 :
    LET parsed == GistEntries(split(a.files, <<"|", "|", "|">>), <<>>, TRUE)
        files_dict == parsed.entries
        data == [description |-> a.description, public |-> a.public, files |-> files_dict]
    IN  Bind(gh_make_request(c1, v, "POST", "/gists", <<>>, data), LAMBDA c2 :
    LET gist == c2.resp
        output ==
            "# Gist Created Successfully!\n\n"
            \o "**ID:** '" \o Get(gist, "id", "") \o "'\n"
            \o "**Description:** " \o a.description \o "\n"
            \o "**Visibility:** " \o (IF a.public THEN "Public" ELSE "Secret") \o "\n"
            \o "**Files:** " \o join(", ", Keys(files_dict)) \o "\n"
            \o "\n**URL:** " \o Get(gist, "html_url", "") \o "\n"
        body ==
            IF ~parsed.ok THEN Return(c1, parsed.error)
            ELSE IF files_dict = <<>> THEN Return(c1, "At least one file is required")
            ELSE IF c2.pc # "run" THEN c2
            ELSE IF gist.body = "scalar" THEN Raise(c2, NotAContainer)
            ELSE IF gist.body = "empty" THEN Raise(c2, "'id'")
            ELSE Return(gh_status(c2, v, "Gist created", TRUE, TRUE), output)
    IN  IF gh_token_missing(v)
        THEN Return(Start(cb, up), "GitHub token required to create gists")
        ELSE IF c1.pc # "run" THEN c1 ELSE Except(body, gh_error)))

\* description and files are None or a string: None is "" and <<>>
update_gist(v, a, cb, up) ==
    Bind(gh_status(Start(cb, up), v, "Updating gist", FALSE, FALSE), LAMBDA c1 :
    LET parsed == IF a.files # <<>>
                  THEN GistEntries(split(a.files, <<"|", "|", "|">>), <<>>, FALSE)
                  ELSE ParseOk(<<>>)
        data == [has_description |-> a.description # "", description |-> a.description,
                 has_files |-> a.files # <<>>, files |-> parsed.entries]
    IN  Bind(gh_make_request(c1, v, "PATCH", "/gists/" \o a.gist_id, <<>>, data), LAMBDA c2 :
    LET gist == c2.resp
        output ==
            "# Gist Updated Successfully!\n\n"
            \o "**ID:** '" \o Get(gist, "id", "") \o "'\n"
            \o "**Description:** " \o Get(gist, "description", "No description") \o "\n"
            \o "**Updated:** " \o Get(gist, "updated_at", "Unknown") \o "\n"
            \o "\n**URL:** " \o Get(gist, "html_url", "") \o "\n"
        body ==
            IF ~parsed.ok THEN Return(c1, parsed.error)
            ELSE IF a.description = "" /\ a.files = <<>>
            THEN Return(c1, "Nothing to update. Provide description or files")
            ELSE IF c2.pc # "run" THEN c2
            ELSE IF gist.body = "scalar" THEN Raise(c2, NotAContainer)
            ELSE IF gist.body = "empty" THEN Raise(c2, "'id'")
            ELSE Return(gh_status(c2, v, "Gist updated", TRUE, TRUE), output)
    IN  IF gh_token_missing(v)
        THEN Return(Start(cb, up), "GitHub token required to update gists")
        ELSE IF c1.pc # "run" THEN c1 ELSE Except(body, gh_error)))

delete_gist(v, a, cb, up) ==
    Bind(gh_status(Start(cb, up), v, "Deleting gist", FALSE, FALSE), LAMBDA c1 :
    Bind(gh_make_request(c1, v, "DELETE", "/gists/" \o a.gist_id, <<>>, NoData), LAMBDA c2 :
    LET body ==
            Return(gh_status(c2, v, "Gist deleted", TRUE, TRUE),
                   "Gist " \o a.gist_id \o " deleted successfully")
    IN  IF gh_token_missing(v)
        THEN Return(Start(cb, up), "GitHub token required to delete gists")
        ELSE IF c1.pc # "run" THEN c1 ELSE Except(body, gh_error)))

\* a workflow run or a job: status and conclusion are strings of characters,
\* null being <<>>
Run(id, status, conclusion, head_sha) ==
    [id |-> id, name |-> "CI", run_number |-> 7, status |-> status,
     conclusion |-> conclusion, head_branch |-> "main", head_sha |-> head_sha,
     path |-> ".github/workflows/ci.yml", event |-> "push", login |-> "o",
     created_at |-> "2024-01-01T00:00:00Z", updated_at |-> "2024-01-02T00:00:00Z",
     html_url |-> "https://github.com/o/o/actions/runs/" \o ToString(id)]

Sha == <<"0", "a", "1", "b", "2", "c", "3", "d", "4", "e">>

RunsResponses ==
    {Http(200, "object",
          [workflow_runs |-> <<Run(41, <<"c", "o", "m", "p", "l", "e", "t", "e", "d">>, <<"f", "a", "i", "l", "u", "r", "e">>, Sha),
                               Run(42, <<"i", "n", "_", "p", "r", "o", "g", "r", "e", "s", "s">>, <<>>, <<>>)>>]),
     Http(200, "empty", NoData)}

\* (head_sha or "N/A")[:7]
short_sha(head_sha) == IF head_sha = <<>> THEN "N/A" ELSE Str(SubSeq(head_sha, 1, min(7, Len(head_sha))))

list_workflow_runs(v, a, cb, up) ==
    Bind(gh_status(Start(cb, up), v, "Fetching workflow runs", FALSE, FALSE), LAMBDA c1 :
    LET owner_repo == _split_repo(a.repo)
        repo_path == "/repos/" \o Str(owner_repo[1]) \o "/" \o Str(owner_repo[2])
        endpoint == IF a.workflow_id # ""
                    THEN repo_path \o "/actions/workflows/" \o a.workflow_id \o "/runs"
                    ELSE repo_path \o "/actions/runs"
        params == <<<<"per_page", ToString(min(a.limit, 100))>>>>
                  \o (IF a.branch # "" THEN <<<<"branch", a.branch>>>> ELSE <<>>)
                  \o (IF a.status # "" THEN <<<<"status", a.status>>>> ELSE <<>>)
    IN  Bind(gh_make_request(c1, v, "GET", endpoint, params, NoData), LAMBDA c2 :
    LET runs == Get(c2.resp, "workflow_runs", <<>>)
        item(idx) ==
            LET run == runs[idx]
            IN  "## " \o ToString(idx) \o ". " \o run.name \o " #"
                \o ToString(run.run_number) \o "\n\n"
                \o "**Run ID:** '" \o ToString(run.id) \o "'\n"
                \o "**Status:** "
                \o Str(_format_workflow_status(run.status, run.conclusion)) \o "\n"
                \o (IF run.conclusion # <<>>
                    THEN "**Conclusion:** " \o Str(run.conclusion) \o "\n" ELSE "")
                \o "**Branch:** " \o run.head_branch \o "\n"
                \o "**Commit:** '" \o short_sha(run.head_sha) \o "'\n"
                \o "**Created:** " \o run.created_at \o "\n"
                \o "**Updated:** " \o run.updated_at \o "\n"
                \o "**URL:** " \o run.html_url \o "\n\n"
                \o "---\n\n"
        output ==
            "# Workflow Runs: " \o Str(a.repo) \o "\n\n"
            \o (IF a.workflow_id # "" THEN "**Workflow:** " \o a.workflow_id \o "\n" ELSE "")
            \o (IF a.branch # "" THEN "**Branch:** " \o a.branch \o "\n" ELSE "")
            \o (IF a.status # "" THEN "**Status Filter:** " \o a.status \o "\n" ELSE "")
            \o "\nShowing " \o ToString(Len(runs)) \o " run(s):\n\n"
            \o Concat([idx \in 1..Len(runs) |-> item(idx)])
        body ==
            IF owner_repo = <<>> THEN Return(c1, "Invalid repo format. Use owner/repo")
            ELSE IF c2.pc # "run" THEN c2
            ELSE IF c2.resp.body = "scalar" THEN Raise(c2, NotAContainer)
            ELSE IF runs = <<>> THEN Return(c2, "No workflow runs found")
            ELSE Return(gh_status(c2, v, "Done", TRUE, TRUE), output)
    IN  IF c1.pc # "run" THEN c1 ELSE Except(body, gh_error)))

RunResponses ==
    {Http(200, "object", Run(41, <<"c", "o", "m", "p", "l", "e", "t", "e", "d">>, <<"f", "a", "i", "l", "u", "r", "e">>, Sha)),
     Http(200, "object", Run(42, <<"i", "n", "_", "p", "r", "o", "g", "r", "e", "s", "s">>, <<>>, <<>>)),
     Http(200, "empty", NoData)}

Job(name, status, conclusion) ==
    [name |-> name, status |-> status, conclusion |-> conclusion,
     started_at |-> "2024-01-01T00:00:00Z", completed_at |-> "2024-01-01T00:05:00Z"]

JobsResponses ==
    {Http(200, "object", [jobs |-> <<Job("build", <<"c", "o", "m", "p", "l", "e", "t", "e", "d">>, <<"s", "u", "c", "c", "e", "s", "s">>),
                                     Job("test", <<"q", "u", "e", "u", "e", "d">>, <<>>)>>]),
     Http(200, "empty", NoData)}

RunIds == {41}

get_workflow_run(v, a, cb, up) ==
    Bind(gh_status(Start(cb, up), v, "Fetching run #" \o ToString(a.run_id),
                        FALSE, FALSE), LAMBDA c1 :
    LET owner_repo == _split_repo(a.repo)
        endpoint == "/repos/" \o Str(owner_repo[1]) \o "/" \o Str(owner_repo[2])
                    \o "/actions/runs/" \o ToString(a.run_id)
    IN  Bind(gh_make_request(c1, v, "GET", endpoint, <<>>, NoData), LAMBDA c2 :
    LET run == c2.resp
        conclusion == Get(run, "conclusion", <<>>)
        summary ==
            "# " \o Get(run, "name", "Workflow Run") \o " #"
            \o ToString(Get(run, "run_number", a.run_id)) \o "\n\n"
            \o "**Status:** "
            \o Str(_format_workflow_status(Get(run, "status", <<>>), conclusion)) \o "\n"
            \o (IF conclusion # <<>> THEN "**Conclusion:** " \o Str(conclusion) \o "\n"
                ELSE "")
            \o "**Run ID:** '"
            \o (IF run.body = "object" THEN ToString(run.data.id) ELSE "None") \o "'\n"
            \o "**Run Number:** #"
            \o (IF run.body = "object" THEN ToString(run.data.run_number) ELSE "N/A") \o "\n"
            \o "**Workflow:** " \o Get(run, "path", "N/A") \o "\n"
            \o "**Branch:** " \o Get(run, "head_branch", "N/A") \o "\n"
            \o "**Commit:** '"
            \o (IF run.body = "object" THEN short_sha(run.data.head_sha) ELSE "N/A") \o "'\n"
            \o "**Event:** " \o Get(run, "event", "N/A") \o "\n"
            \o "**Actor:** " \o Get(run, "login", "Unknown") \o "\n"
            \o "**Created:** " \o Get(run, "created_at", "Unknown") \o "\n"
            \o "**Updated:** " \o Get(run, "updated_at", "Unknown") \o "\n"
            \o "\n**URL:** " \o Get(run, "html_url", "") \o "\n\n"
    \* try: jobs_data = self._make_request(jobs_endpoint) ... except Exception: pass
    IN  Bind(gh_make_request(c2, v, "GET", endpoint \o "/jobs", <<>>, NoData), LAMBDA c3 :
    LET jobs == Get(c3.resp, "jobs", <<>>)
        job(i) ==
            "### " \o jobs[i].name \o "\n\n"
            \o "**Status:** "
            \o Str(_format_workflow_status(jobs[i].status, jobs[i].conclusion)) \o "\n"
            \o (IF jobs[i].conclusion # <<>>
                THEN "**Conclusion:** " \o Str(jobs[i].conclusion) \o "\n" ELSE "")
            \o "**Started:** " \o jobs[i].started_at \o "\n"
            \o "**Completed:** " \o jobs[i].completed_at \o "\n\n"
        jobs_section ==
            IF c3.pc # "run" \/ c3.resp.body = "scalar" \/ jobs = <<>> THEN ""
            ELSE "## Jobs\n\n" \o Concat([i \in 1..Len(jobs) |-> job(i)])
    IN  Bind([c3 EXCEPT !.pc = "run", !.val = ""], LAMBDA c4 :
    LET body ==
            IF owner_repo = <<>> THEN Return(c1, "Invalid repo format. Use owner/repo")
            ELSE IF c2.pc # "run" THEN c2
            ELSE IF run.body = "scalar" THEN Raise(c2, NotAContainer)
            \* run.get('head_sha', 'N/A')[:7] on a null head_sha
            ELSE IF run.body = "object" /\ run.data.head_sha = <<>>
            THEN Raise(c2, "'NoneType' object is not subscriptable")
            ELSE Return(gh_status(c4, v, "Done", TRUE, TRUE), summary \o jobs_section)
    IN  IF c1.pc # "run" THEN c1 ELSE Except(body, gh_error)))))

\* what GitHub answers a dispatch (204, no body) or a cancel (202, {}) with
AcceptedResponses == {Http(204, "nobody", NoData), Http(202, "empty", NoData)}

WorkflowIds == {"ci.yml"}

trigger_workflow(v, a, cb, up) ==
    Bind(gh_status(Start(cb, up), v, "Triggering workflow", FALSE, FALSE), LAMBDA c1 :
    LET owner_repo == _split_repo(a.repo)
        endpoint == "/repos/" \o Str(owner_repo[1]) \o "/" \o Str(owner_repo[2])
                    \o "/actions/workflows/" \o a.workflow_id \o "/dispatches"
        inputs_dict == _parse_workflow_inputs(a.inputs)
        data == [ref |-> a.ref, has_inputs |-> inputs_dict.entries # <<>>,
                 inputs |-> inputs_dict.entries]
    IN  Bind(gh_make_request(c1, v, "POST", endpoint, <<>>, data), LAMBDA c2 :
    LET output ==
            "# Workflow Triggered Successfully!\n\n"
            \o "**Repository:** " \o Str(a.repo) \o "\n"
            \o "**Workflow:** " \o a.workflow_id \o "\n"
            \o "**Ref:** " \o a.ref \o "\n"
            \o (IF a.inputs # <<>> THEN "**Inputs:** Provided\n" ELSE "")
            \o "\n**Note:** The workflow run has been queued. Use 'list_workflow_runs' to check its status.\n"
        body ==
            IF owner_repo = <<>> THEN Return(c1, "Invalid repo format. Use owner/repo")
            ELSE IF ~inputs_dict.ok
            THEN Return(c1, "Invalid workflow inputs: " \o inputs_dict.error)
            ELSE Return(gh_status(c2, v, "Workflow triggered", TRUE, TRUE), output)
    IN  IF gh_token_missing(v)
        THEN Return(Start(cb, up), "GitHub token required to trigger workflows")
        ELSE IF c1.pc # "run" THEN c1 ELSE Except(body, gh_error)))

\* s.title() on the strings of the model
title(s) ==
    [i \in 1..Len(s) |->
        IF i = 1 \/ (IndexIn(s[i - 1], Lower) = 0 /\ IndexIn(s[i - 1], Upper) = 0)
        THEN upper_char(s[i]) ELSE lower_char(s[i])]

Workflow(id, name, state) ==
    [id |-> id, name |-> name, path |-> ".github/workflows/ci.yml", state |-> state,
     html_url |-> "https://github.com/o/o/actions/workflows/ci.yml"]

WorkflowsResponses ==
    {Http(200, "object", [workflows |-> <<Workflow(5, "CI", <<"a", "c", "t", "i", "v", "e">>),
                                         Workflow(6, "Nightly", <<"d", "i", "s", "a", "b", "l", "e", "d", "_", "m", "a", "n", "u", "a", "l", "l", "y">>)>>]),
     Http(200, "empty", NoData)}

list_workflows(v, a, cb, up) ==
    Bind(gh_status(Start(cb, up), v, "Fetching workflows", FALSE, FALSE), LAMBDA c1 :
    LET owner_repo == _split_repo(a.repo)
        endpoint == "/repos/" \o Str(owner_repo[1]) \o "/" \o Str(owner_repo[2])
                    \o "/actions/workflows"
    IN  Bind(gh_make_request(c1, v, "GET", endpoint, <<>>, NoData), LAMBDA c2 :
    LET workflows == Get(c2.resp, "workflows", <<>>)
        item(idx) ==
            LET workflow == workflows[idx]
                state_label == IF workflow.state # <<>>
                               THEN Str(title(replace(workflow.state, "_", " ")))
                               ELSE "Unknown"
            IN  "## " \o ToString(idx) \o ". " \o workflow.name \o "\n\n"
                \o "**ID:** '" \o ToString(workflow.id) \o "'\n"
                \o "**Path:** '" \o workflow.path \o "'\n"
                \o "**State:** " \o state_label \o "\n"
                \o "**URL:** " \o workflow.html_url \o "\n\n"
                \o "---\n\n"
        output ==
            "# Workflows in " \o Str(a.repo) \o "\n\n"
            \o "Total: " \o ToString(Len(workflows)) \o " workflow(s)\n\n"
            \o Concat([idx \in 1..Len(workflows) |-> item(idx)])
        body ==
            IF owner_repo = <<>> THEN Return(c1, "Invalid repo format. Use owner/repo")
            ELSE IF c2.pc # "run" THEN c2
            ELSE IF c2.resp.body = "scalar" THEN Raise(c2, NotAContainer)
            ELSE IF workflows = <<>> THEN Return(c2, "No workflows found in this repository")
            ELSE Return(gh_status(c2, v, "Done", TRUE, TRUE), output)
    IN  IF c1.pc # "run" THEN c1 ELSE Except(body, gh_error)))

cancel_workflow_run(v, a, cb, up) ==
    Bind(gh_status(Start(cb, up), v, "Cancelling workflow run", FALSE, FALSE), LAMBDA c1 :
    LET owner_repo == _split_repo(a.repo)
        endpoint == "/repos/" \o Str(owner_repo[1]) \o "/" \o Str(owner_repo[2])
                    \o "/actions/runs/" \o ToString(a.run_id) \o "/cancel"
    IN  Bind(gh_make_request(c1, v, "POST", endpoint, <<>>, NoData), LAMBDA c2 :
    LET body ==
            IF owner_repo = <<>> THEN Return(c1, "Invalid repo format. Use owner/repo")
            ELSE Return(gh_status(c2, v, "Run cancelled", TRUE, TRUE),
                        "Workflow run #" \o ToString(a.run_id)
                        \o " has been cancelled successfully")
    IN  IF gh_token_missing(v)
        THEN Return(Start(cb, up), "GitHub token required to cancel workflow runs")
        ELSE IF c1.pc # "run" THEN c1 ELSE Except(body, gh_error)))

----------------------------------------------------------------------------
(* src/tools/paperless.py *)

\* Valves.max_document_size as the host configures it in the model
DocSizeLimit == 3

\* the timeout of every request of _make_request, in seconds
pl_timeout == 30

PlValves ==
    [api_token : {"", "token"}, enable_status_updates : BOOLEAN,
     max_document_size : {DocSizeLimit}, paperless_url : {"http://localhost:8000"},
     api_version : {5}]

PlUserValves(include_content, max_results, show_highlights) ==
    [cls |-> "UserValves", include_content |-> include_content,
     max_results |-> max_results, show_highlights |-> show_highlights]

\* __user__["valves"]: absent, a UserValves, a dict of valid fields, a dict
\* pydantic rejects ({"max_results": "many"}), or a value dict() rejects
PlUsers ==
    {[PlUserValves(TRUE, 5, TRUE) EXCEPT !.cls = "absent"],
     PlUserValves(FALSE, 30, FALSE),
     [PlUserValves(TRUE, 0, FALSE) EXCEPT !.cls = "dict"],
     [PlUserValves(TRUE, 5, TRUE) EXCEPT !.cls = "invalid dict"],
     [PlUserValves(TRUE, 5, TRUE) EXCEPT !.cls = "int"]}

\* user_valves = __user__.get("valves", self.UserValves())
\* if not isinstance(user_valves, self.UserValves):
\*     user_valves = self.UserValves(**dict(user_valves))
pl_user_valves(c, user) ==
    IF user.cls = "invalid dict"
    THEN Raise(c, "1 validation error for UserValves")
    ELSE IF user.cls = "int" THEN Raise(c, "'int' object is not iterable")
    ELSE c

UserValvesOf(user) ==
    IF user.cls = "absent" THEN PlUserValves(TRUE, 5, TRUE)
    ELSE [user EXCEPT !.cls = "UserValves"]

pl_get_headers(v) == "Token " \o v.api_token

\* str(e) of the RequestException
RequestError(r) ==
    IF r.kind # "http" THEN TransportError(r)
    ELSE IF raise_for_status(r) THEN ToString(r.code) \o " Error for url"
    ELSE TransportError(r)

pl_make_request(c, v, endpoint, params) ==
    IF c.pc # "run" THEN c
    ELSE
    LET r == Head(c.up)
        sent == [c EXCEPT !.up = Tail(@),
                          !.resp = r,
                          !.reqs = Append(@, [method |-> "GET",
                                              url |-> v.paperless_url \o endpoint,
                                              params |-> params,
                                              json |-> NoData,
                                              authorization |-> pl_get_headers(v),
                                              timeout |-> pl_timeout])]
    IN  IF r.kind # "http" \/ raise_for_status(r) \/ ~has_json(r)
        THEN Raise(sent, "API request failed: " \o RequestError(r))
        ELSE sent

pl_status(c, v, description, done, hidden) ==
    IF v.enable_status_updates THEN Emit(c, StatusEvent(description, done, hidden)) ELSE c

\* a document: content is a string of characters, highlights the search hit's
\* highlights cut at its HTML tags, score in thousandths
Document(id, heading, content) ==
    [id |-> id, title |-> heading, content |-> content, created |-> "2024-03-01",
     score |-> 1250, highlights |-> <<"<span>", "tax", "</span>", " 2024">>,
     tags |-> <<3, 4>>]

\* re.sub(r"<[^>]+>", "**", highlights)
RECURSIVE clean_highlights(_)
clean_highlights(pieces) ==
    IF pieces = <<>> THEN ""
    ELSE (IF Head(pieces) \in {"<span>", "</span>"} THEN "**" ELSE Head(pieces))
         \o clean_highlights(Tail(pieces))

\* f"{score:.3f}", score in thousandths
ThreeDecimals(n) ==
    ToString(n \div 1000) \o "."
    \o ToString((n \div 100) % 10) \o ToString((n \div 10) % 10) \o ToString(n % 10)

RECURSIVE JoinInts(_)
JoinInts(ns) ==
    IF ns = <<>> THEN ""
    ELSE IF Len(ns) = 1 THEN ToString(ns[1])
    ELSE ToString(ns[1]) \o ", " \o JoinInts(Tail(ns))

\* position is None (0) or the rank of the document
_format_document(doc, position, user_valves) ==
    (IF position # 0
     THEN "## " \o ToString(position) \o ". " \o doc.title \o " (ID: #" \o ToString(doc.id)
          \o ")\n\n"
     ELSE "## " \o doc.title \o " (ID: #" \o ToString(doc.id) \o ")\n\n")
    \o "**Relevance Score:** " \o ThreeDecimals(doc.score) \o "\n\n"
    \o (IF user_valves.show_highlights /\ doc.highlights # <<>>
        THEN "**Highlights:** " \o clean_highlights(doc.highlights) \o "\n\n" ELSE "")
    \o (IF doc.created # "" THEN "**Created:** " \o doc.created \o "\n" ELSE "")
    \o (IF doc.tags # <<>> THEN "**Tags:** " \o JoinInts(doc.tags) \o "\n" ELSE "")
    \o "\n"

\* the document is requested with no try around the request
_get_document_content_unguarded(c, v, document_id) ==
    pl_make_request(c, v, "/api/documents/" \o ToString(document_id) \o "/", <<>>)

\* the content of the last response, None being <<>> too: the callers test
\* "if content" only
_get_document_content(c, v, document_id) ==
    Swallow(pl_make_request(c, v, "/api/documents/" \o ToString(document_id) \o "/", <<>>))

ContentOf(c) ==
    IF c.resp.kind = "http" /\ ~raise_for_status(c.resp) /\ c.resp.body = "object"
    THEN c.resp.data.content ELSE <<>>

\* if len(content) > max_document_size: content = content[:max] + marker
\* the characters of the result, the marker being the last element
truncated(content, v) ==
    IF Len(content) > v.max_document_size
    THEN SubSeq(content, 1, v.max_document_size) \o <<"\n\n[Content truncated...]">>
    ELSE content

truncate(content, v) == Str(truncated(content, v))

\* urljoin(self.valves.paperless_url, f"/documents/{doc_id}")
doc_url(v, doc_id) == v.paperless_url \o "/documents/" \o ToString(doc_id)

\* for idx, doc in enumerate(documents, 1): the loop of the four listings, from
\* idx on.  header introduces the content, fetch says whether the listing
\* retrieves it, cite whether it emits a citation "before" or "after" the rule
\* that closes the document, or "never"
RECURSIVE DocLoop(_, _, _, _, _, _, _, _)
DocLoop(c, v, uv, docs, idx, header, fetch, cite) ==
    IF c.pc # "run" \/ idx > Len(docs) THEN c
    ELSE
    LET doc == docs[idx]
        doc_output == _format_document(doc, idx, uv)
        c1 == Append2(c, doc_output)
        wanted == fetch /\ uv.include_content
        c2 == IF wanted THEN _get_document_content(c1, v, doc.id) ELSE c1
        content == IF wanted THEN ContentOf(c2) ELSE <<>>
        c3 == IF content # <<>>
              THEN Append2(c2, header \o truncate(content, v) \o "\n\n") ELSE c2
        citation ==
            CitationEvent(doc_output \o (IF content # <<>>
                                         THEN "\n\n" \o truncate(content, v) ELSE ""),
                          "#" \o ToString(doc.id) \o ": " \o doc.title,
                          doc_url(v, doc.id))
        c4 == IF cite = "before" THEN Emit(c3, citation) ELSE c3
        c5 == Append2(c4, "---\n\n")
        c6 == IF cite = "after" THEN Emit(c5, citation) ELSE c5
    IN  IF "id" \notin DOMAIN doc THEN Raise(c, "'id'")
        ELSE DocLoop(c6, v, uv, docs, idx + 1, header, fetch, cite)

\* GET /api/documents/: two documents of twelve, or one that has no id
DocsResponses ==
    {Http(200, "object",
          [results |-> <<Document(7, "Tax", <<"a", "b", "c", "d", "e">>), Document(8, "Bill", <<"a", "b">>)>>,
           count |-> 12]),
     Http(200, "object", [results |-> <<[title |-> "Lost"]>>, count |-> 1]),
     Http(200, "empty", NoData)}

\* GET /api/documents/{id}/
DocResponses ==
    {Http(200, "object", Document(7, "Tax", <<"a", "b", "c", "d", "e">>)),
     Http(200, "object", Document(7, "Tax", <<"a", "b">>)),
     Http(200, "empty", NoData)}

\* failures of a Paperless request
PlFailures ==
    {ConnectionError, Http(404, "notjson", NoData), Http(200, "notjson", NoData),
     Http(200, "scalar", NoData)}

pl_token_missing(v) == v.api_token = ""

page_size(uv) == <<"page_size", ToString(min(uv.max_results, 25))>>

search_documents(v, a, cb, up) ==
    Bind(pl_user_valves(Start(cb, up), a.user), LAMBDA c0 :
    LET uv == UserValvesOf(a.user)
    IN  Bind(pl_status(c0, v, "Searching Paperless for: " \o a.query, FALSE, FALSE), LAMBDA c1 :
    Bind(pl_make_request(c1, v, "/api/documents/",
                              <<<<"query", a.query>>, page_size(uv),
                                <<"truncate_content", "True">>>>), LAMBDA c2 :
    LET documents == Get(c2.resp, "results", <<>>)
        total_count == Get(c2.resp, "count", Len(documents))
    IN  Bind(pl_status(c2, v, "Found " \o ToString(total_count)
                               \o " documents, retrieving content...", FALSE, FALSE), LAMBDA c3 :
    Bind(Append2(c3, "# Search Results for: " \o a.query \o "\n"
                          \o "Found " \o ToString(total_count) \o " documents, showing top "
                          \o ToString(Len(documents)) \o ":\n\n" \o "---\n\n"), LAMBDA c4 :
    Bind(DocLoop(c4, v, uv, documents, 1, "\n**Full Document Content:**\n\n",
                      TRUE, "before"), LAMBDA c5 :
    Bind(pl_status(c5, v, "Retrieved " \o ToString(Len(documents)) \o " documents",
                        TRUE, TRUE), LAMBDA c6 :
    LET body ==
            IF c2.pc # "run" THEN c2
            ELSE IF c2.resp.body = "scalar" THEN Raise(c2, NotAContainer)
            ELSE IF documents = <<>>
            THEN Return(pl_status(c2, v, "No documents found", TRUE, FALSE),
                        "No documents found matching: '" \o a.query \o "'")
            ELSE Return(c6, c6.out)
        handler(c, e) ==
            Return(pl_status(c, v, "Error: " \o e, TRUE, FALSE),
                   "Error searching documents: " \o e)
    IN  IF pl_token_missing(v)
        THEN Return(Start(cb, up), "Paperless-ngx API token not configured. "
                                   \o "Please set it in the tool settings.")
        ELSE IF c1.pc # "run" THEN c1 ELSE Except(body, handler))))))))

\* except Exception as e: return f"{prefix}: {str(e)}"
pl_error(c, prefix, e) == Return(c, prefix \o ": " \o e)

get_document_by_id(v, a, cb, up) ==
    LET id == ToString(a.document_id)
    IN  Bind(pl_user_valves(Start(cb, up), a.user), LAMBDA c0 :
    LET uv == UserValvesOf(a.user)
    IN  Bind(pl_status(c0, v, "Retrieving document #" \o id, FALSE, FALSE), LAMBDA c1 :
    Bind(pl_make_request(c1, v, "/api/documents/" \o id \o "/", <<>>), LAMBDA c2 :
    LET doc == c2.resp.data
    IN  Bind(Append2(c2, _format_document(doc, 0, uv)), LAMBDA c3 :
    Bind(IF uv.include_content THEN _get_document_content(c3, v, a.document_id) ELSE c3, LAMBDA c4 :
    LET content == IF uv.include_content THEN ContentOf(c4) ELSE <<>>
    IN  Bind(IF content # <<>>
              THEN Append2(c4, "\n**Full Document Content:**\n\n" \o truncate(content, v)
                               \o "\n\n")
              ELSE c4, LAMBDA c5 :
    Bind(Emit(c5, CitationEvent(c5.out, "#" \o id \o ": " \o doc.title,
                                     doc_url(v, a.document_id))), LAMBDA c6 :
    Bind(pl_status(c6, v, "Document retrieved successfully", TRUE, TRUE), LAMBDA c7 :
    LET body ==
            IF c2.pc # "run" THEN c2
            ELSE IF c2.resp.body = "scalar" THEN Raise(c2, NotAContainer)
            ELSE IF c2.resp.body = "empty" THEN Raise(c2, "'id'")
            ELSE Return(c7, c7.out)
        handler(c, e) == pl_error(c, "Error retrieving document #" \o id, e)
    IN  IF pl_token_missing(v)
        THEN Return(Start(cb, up), "Paperless-ngx API token not configured.")
        ELSE IF c1.pc # "run" THEN c1
        ELSE Except(body, handler)))))))))

find_similar_documents(v, a, cb, up) ==
    LET id == ToString(a.document_id)
    IN  Bind(pl_user_valves(Start(cb, up), a.user), LAMBDA c0 :
    LET uv == UserValvesOf(a.user)
    IN  Bind(pl_status(c0, v, "Finding documents similar to #" \o id, FALSE, FALSE), LAMBDA c1 :
    Bind(pl_make_request(c1, v, "/api/documents/" \o id \o "/", <<>>), LAMBDA c2 :
    LET ref_title == Get(c2.resp, "title", "Untitled")
    IN  Bind(pl_make_request(c2, v, "/api/documents/",
                              <<<<"more_like_id", id>>, page_size(uv)>>), LAMBDA c3 :
    LET documents == Get(c3.resp, "results", <<>>)
    IN  Bind(Append2(c3, "# Documents Similar to: " \o ref_title \o " (#" \o id \o ")\n\n"
                          \o "Found " \o ToString(Len(documents))
                          \o " similar documents:\n\n" \o "---\n\n"), LAMBDA c4 :
    Bind(DocLoop(c4, v, uv, documents, 1, "", FALSE, "after"), LAMBDA c5 :
    Bind(pl_status(c5, v, "Similar documents retrieved", TRUE, TRUE), LAMBDA c6 :
    LET body ==
            IF c2.pc # "run" THEN c2
            ELSE IF c2.resp.body = "scalar" THEN Raise(c2, NotAContainer)
            ELSE IF c3.pc # "run" THEN c3
            ELSE IF c3.resp.body = "scalar" THEN Raise(c3, NotAContainer)
            ELSE IF documents = <<>>
            THEN Return(c3, "No similar documents found for #" \o id \o ": " \o ref_title)
            ELSE Return(c6, c6.out)
        handler(c, e) == pl_error(c, "Error finding similar documents", e)
    IN  IF pl_token_missing(v)
        THEN Return(Start(cb, up), "Paperless-ngx API token not configured.")
        ELSE IF c1.pc # "run" THEN c1
        ELSE Except(body, handler))))))))

\* a string argument that is None or empty counts as not given ("")
advanced_document_search(v, a, cb, up) ==
    Bind(pl_user_valves(Start(cb, up), a.user), LAMBDA c0 :
    LET uv == UserValvesOf(a.user)
        given(name, value) == IF value # "" THEN <<<<name, value>>>> ELSE <<>>
        params == <<page_size(uv)>> \o given("query", a.query)
                  \o given("tags__id__in", a.tags)
                  \o given("created__date__gte", a.created_after)
        filter_desc ==
            join(", ",
                 (IF a.query # "" THEN <<"query: '" \o a.query \o "'">> ELSE <<>>)
                 \o (IF a.tags # "" THEN <<"tags: " \o a.tags>> ELSE <<>>)
                 \o (IF a.created_after # ""
                     THEN <<"dates: " \o a.created_after \o " to ...">> ELSE <<>>))
    IN  Bind(pl_status(c0, v, "Searching with filters: " \o filter_desc, FALSE, FALSE), LAMBDA c1 :
    Bind(pl_make_request(c1, v, "/api/documents/", params), LAMBDA c2 :
    LET documents == Get(c2.resp, "results", <<>>)
        total_count == Get(c2.resp, "count", Len(documents))
    IN  Bind(Append2(c2, "# Advanced Search Results\n"
                          \o "**Filters:** " \o filter_desc \o "\n\n"
                          \o "Found " \o ToString(total_count) \o " documents, showing top "
                          \o ToString(Len(documents)) \o ":\n\n" \o "---\n\n"), LAMBDA c3 :
    Bind(DocLoop(c3, v, uv, documents, 1, "\n**Content:**\n\n", TRUE, "never"), LAMBDA c4 :
    Bind(pl_status(c4, v, "Search completed", TRUE, TRUE), LAMBDA c5 :
    LET body ==
            IF c2.pc # "run" THEN c2
            ELSE IF c2.resp.body = "scalar" THEN Raise(c2, NotAContainer)
            ELSE IF documents = <<>>
            THEN Return(c2, "No documents found matching filters: " \o filter_desc)
            ELSE Return(c5, c5.out)
        handler(c, e) == pl_error(c, "Error in advanced search", e)
    IN  IF pl_token_missing(v)
        THEN Return(Start(cb, up), "Paperless-ngx API token not configured.")
        ELSE IF c1.pc # "run" THEN c1
        ELSE Except(body, handler)))))))

\* a tag or a correspondent of the instance
Tag(id, name, document_count, color) ==
    [id |-> id, name |-> name, document_count |-> document_count, color |-> color]

\* the key with the names compared as they are written
by_count_then_name_cased(x, y) ==
    \/ x.document_count > y.document_count
    \/ x.document_count = y.document_count /\ str_lt(x.name, y.name)

\* key=lambda t: (-t.get('document_count', 0), t.get('name', '').lower())
by_count_then_name(x, y) ==
    \/ x.document_count > y.document_count
    \/ x.document_count = y.document_count /\ str_lt(lower(x.name), lower(y.name))

TagsResponses ==
    {Http(200, "object",
          [results |-> <<Tag(3, <<"t", "a", "x">>, 1, "#a6cee3"), Tag(4, <<"I", "n", "v", "o", "i", "c", "e">>, 9, ""),
                         Tag(5, <<"b", "a", "n", "k">>, 9, "")>>]),
     Http(200, "empty", NoData)}

\* four tags, two of them equal but for the case of their names, in every order
ShuffledTags ==
    {Http(200, "object", [results |-> results]) :
        results \in Shuffles(<<Tag(3, <<"t", "a", "x">>, 1, "#a6cee3"),
                                Tag(4, <<"I", "n", "v", "o", "i", "c", "e">>, 9, ""),
                                Tag(5, <<"b", "a", "n", "k">>, 9, ""),
                                Tag(6, <<"T", "a", "x">>, 1, "")>>)}

\* f" - {doc_count} document{'s' if doc_count != 1 else ''}"
document_count(n) == " - " \o ToString(n) \o " document" \o (IF n # 1 THEN "s" ELSE "")

list_all_tags(v, a, cb, up) ==
    Bind(pl_status(Start(cb, up), v, "Retrieving all tags from Paperless...",
                        FALSE, FALSE), LAMBDA c1 :
    Bind(pl_make_request(c1, v, "/api/tags/", <<<<"page_size", "1000">>>>), LAMBDA c2 :
    LET tags == Get(c2.resp, "results", <<>>)
        tags_sorted == Sorted(tags, by_count_then_name)
        line(tag) ==
            "- **" \o Str(tag.name) \o "** (ID: " \o ToString(tag.id) \o ")"
            \o document_count(tag.document_count)
            \o (IF tag.color # "" THEN " - Color: " \o tag.color ELSE "") \o "\n"
        output ==
            "# Available Tags (" \o ToString(Len(tags)) \o " total)\n\n"
            \o Concat([i \in 1..Len(tags) |-> line(tags_sorted[i])])
        body ==
            IF c2.pc # "run" THEN c2
            ELSE IF c2.resp.body = "scalar" THEN Raise(c2, NotAContainer)
            ELSE IF tags = <<>> THEN Return(c2, "No tags found in your Paperless instance.")
            ELSE Return(pl_status(c2, v, "Tags retrieved successfully", TRUE, TRUE), output)
        handler(c, e) == pl_error(c, "Error retrieving tags", e)
    IN  IF pl_token_missing(v)
        THEN Return(Start(cb, up), "Paperless-ngx API token not configured.")
        ELSE IF c1.pc # "run" THEN c1
        ELSE Except(body, handler)))

list_correspondents(v, a, cb, up) ==
    Bind(pl_status(Start(cb, up), v, "Retrieving correspondents...", FALSE, FALSE), LAMBDA c1 :
    Bind(pl_make_request(c1, v, "/api/correspondents/", <<<<"page_size", "1000">>>>), LAMBDA c2 :
    LET correspondents == Get(c2.resp, "results", <<>>)
        correspondents_sorted == Sorted(correspondents, by_count_then_name)
        line(corr) ==
            "- **" \o Str(corr.name) \o "** (ID: " \o ToString(corr.id) \o ")"
            \o document_count(corr.document_count) \o "\n"
        output ==
            "# Available Correspondents (" \o ToString(Len(correspondents)) \o " total)\n\n"
            \o Concat([i \in 1..Len(correspondents) |-> line(correspondents_sorted[i])])
        body ==
            IF c2.pc # "run" THEN c2
            ELSE IF c2.resp.body = "scalar" THEN Raise(c2, NotAContainer)
            ELSE IF correspondents = <<>>
            THEN Return(c2, "No correspondents found in your Paperless instance.")
            ELSE Return(pl_status(c2, v, "Correspondents retrieved", TRUE, TRUE), output)
        handler(c, e) == pl_error(c, "Error retrieving correspondents", e)
    IN  IF pl_token_missing(v)
        THEN Return(Start(cb, up), "Paperless-ngx API token not configured.")
        ELSE IF c1.pc # "run" THEN c1
        ELSE Except(body, handler)))

DigitChars == {"0", "1", "2", "3", "4", "5", "6", "7", "8", "9"}

\* s.isdigit()
isdigit(s) == s # <<>> /\ \A i \in 1..Len(s) : s[i] \in DigitChars

\* a resolution that compares the names as they are written
RECURSIVE ResolveTags_cased(_, _, _)
ResolveTags_cased(tag_list, all_tags, tag_ids) ==
    IF tag_list = <<>> THEN [kind |-> "ids", ids |-> tag_ids, name |-> ""]
    ELSE
    LET tag_input == Head(tag_list)
        known == Get(all_tags, "results", <<>>)
        matches == {i \in 1..Len(known) : known[i].name = tag_input}
        first == CHOOSE i \in matches : \A j \in matches : i <= j
    IN  IF isdigit(tag_input)
        THEN ResolveTags_cased(Tail(tag_list), all_tags, Append(tag_ids, Str(tag_input)))
        ELSE IF all_tags.body = "scalar"
        THEN [kind |-> "error", ids |-> tag_ids, name |-> NotAContainer]
        ELSE IF matches = {}
        THEN [kind |-> "missing", ids |-> tag_ids, name |-> Str(tag_input)]
        ELSE ResolveTags_cased(Tail(tag_list), all_tags,
                               Append(tag_ids, ToString(known[first].id)))

\* for tag_input in tag_list: the ids resolved so far, until a name matches no
\* tag ("missing") or the tags are no dict ("error")
RECURSIVE ResolveTags(_, _, _)
ResolveTags(tag_list, all_tags, tag_ids) ==
    IF tag_list = <<>> THEN [kind |-> "ids", ids |-> tag_ids, name |-> ""]
    ELSE
    LET tag_input == Head(tag_list)
        known == Get(all_tags, "results", <<>>)
        matches == {i \in 1..Len(known) : lower(known[i].name) = lower(tag_input)}
        first == CHOOSE i \in matches : \A j \in matches : i <= j
    IN  IF isdigit(tag_input)
        THEN ResolveTags(Tail(tag_list), all_tags, Append(tag_ids, Str(tag_input)))
        ELSE IF all_tags.body = "scalar"
        THEN [kind |-> "error", ids |-> tag_ids, name |-> NotAContainer]
        ELSE IF matches = {}
        THEN [kind |-> "missing", ids |-> tag_ids, name |-> Str(tag_input)]
        ELSE ResolveTags(Tail(tag_list), all_tags,
                         Append(tag_ids, ToString(known[first].id)))

search_by_tags(v, a, cb, up) ==
    Bind(pl_user_valves(Start(cb, up), a.user), LAMBDA c0 :
    LET uv == UserValvesOf(a.user)
        tag_list == SelectNonBlank(split(a.tags, <<",">>))
        shown == join(", ", [i \in 1..Len(tag_list) |-> Str(tag_list[i])])
    IN  Bind(pl_status(c0, v, "Searching for documents with tags: " \o shown, FALSE, FALSE), LAMBDA c1 :
    Bind(pl_make_request(c1, v, "/api/tags/", <<<<"page_size", "1000">>>>), LAMBDA c2 :
    LET resolved == ResolveTags(tag_list, c2.resp, <<>>)
        match_desc == IF a.match_all THEN "all tags" ELSE "any of these tags"
    IN  Bind(pl_make_request(c2, v, "/api/documents/",
                              <<page_size(uv),
                                <<IF a.match_all THEN "tags__id__all" ELSE "tags__id__in",
                                  join(",", resolved.ids)>>>>), LAMBDA c3 :
    LET documents == Get(c3.resp, "results", <<>>)
        total_count == Get(c3.resp, "count", Len(documents))
    IN  Bind(Append2(c3, "# Documents with " \o match_desc \o ": " \o shown \o "\n\n"
                          \o "Found " \o ToString(total_count) \o " documents, showing top "
                          \o ToString(Len(documents)) \o ":\n\n" \o "---\n\n"), LAMBDA c4 :
    Bind(DocLoop(c4, v, uv, documents, 1, "\n**Content:**\n\n", TRUE, "before"), LAMBDA c5 :
    Bind(pl_status(c5, v, "Found " \o ToString(Len(documents)) \o " documents",
                        TRUE, TRUE), LAMBDA c6 :
    LET body ==
            IF c2.pc # "run" THEN c2
            ELSE IF resolved.kind = "error" THEN Raise(c2, resolved.name)
            ELSE IF resolved.kind = "missing"
            THEN Return(c2, "Tag not found: '" \o resolved.name
                            \o "'. Use list_all_tags to see available tags.")
            ELSE IF c3.pc # "run" THEN c3
            ELSE IF c3.resp.body = "scalar" THEN Raise(c3, NotAContainer)
            ELSE IF documents = <<>>
            THEN Return(c3, "No documents found with " \o match_desc \o ": " \o shown)
            ELSE Return(c6, c6.out)
        handler(c, e) == pl_error(c, "Error searching by tags", e)
    IN  IF pl_token_missing(v)
        THEN Return(Start(cb, up), "Paperless-ngx API token not configured.")
        ELSE IF c0.pc # "run" THEN c0
        ELSE IF tag_list = <<>>
        THEN Return(c0, "No tags specified. Please provide tag names or IDs.")
        ELSE IF c1.pc # "run" THEN c1
        ELSE Except(body, handler))))))))

----------------------------------------------------------------------------
(* src/tools/web_content_extractor.py *)

\* Valves.max_content_length, in bytes
max_content_length == 1000000

\* Valves.default_timeout, in seconds
default_timeout == 30

\* the valves, and what __init__ found importable
WebValves ==
    [enable_status_updates : BOOLEAN, has_trafilatura : BOOLEAN,
     has_readability : BOOLEAN]

WebUserValves(preferred_method, include_links, show_metadata) ==
    [cls |-> "UserValves", preferred_method |-> preferred_method,
     include_links |-> include_links, show_metadata |-> show_metadata]

\* __user__["valves"], as for Paperless
WebUsers ==
    {[WebUserValves("auto", TRUE, TRUE) EXCEPT !.cls = "absent"],
     WebUserValves("trafilatura", FALSE, FALSE),
     WebUserValves("readability", TRUE, TRUE),
     WebUserValves("basic", FALSE, TRUE),
     WebUserValves("magic", TRUE, TRUE),
     [WebUserValves("auto", TRUE, FALSE) EXCEPT !.cls = "dict"],
     [WebUserValves("auto", TRUE, TRUE) EXCEPT !.cls = "invalid dict"],
     [WebUserValves("auto", TRUE, TRUE) EXCEPT !.cls = "int"]}

web_status(c, v, description, done, hidden) ==
    IF v.enable_status_updates THEN Emit(c, StatusEvent(description, done, hidden)) ELSE c

\* urlparse(url): scheme and netloc, or the ValueError of an unbalanced bracket
SchemeChars == {Lower[i] : i \in 1..Len(Lower)} \cup {Upper[i] : i \in 1..Len(Upper)}
               \cup DigitChars \cup {"+", "-", "."}

urlparse(url) ==
    LET colon == find(url, <<":">>)
        has_scheme == /\ colon > 1
                      /\ url[1] \notin DigitChars \cup {"+", "-", "."}
                      /\ \A i \in 1..(colon - 1) : url[i] \in SchemeChars
        scheme == IF has_scheme THEN lower(SubSeq(url, 1, colon - 1)) ELSE <<>>
        rest == IF has_scheme THEN SubSeq(url, colon + 1, Len(url)) ELSE url
        after == SubSeq(rest, 3, Len(rest))
        stops == {i \in 1..Len(after) : after[i] \in {"/", "?", "#"}}
        stop == IF stops = {} THEN Len(after) + 1
                ELSE CHOOSE i \in stops : \A j \in stops : i <= j
        netloc == IF Len(rest) >= 2 /\ SubSeq(rest, 1, 2) = <<"/", "/">>
                  THEN SubSeq(after, 1, stop - 1) ELSE <<>>
        opened == \E i \in 1..Len(netloc) : netloc[i] = "["
        closed == \E i \in 1..Len(netloc) : netloc[i] = "]"
    IN  [error |-> opened # closed, scheme |-> scheme, netloc |-> netloc]

\* int(s) of a header value: its digits, or a ValueError (ok is FALSE)
RECURSIVE DigitsValue(_)
DigitsValue(s) ==
    IF s = <<>> THEN 0
    ELSE 10 * DigitsValue(SubSeq(s, 1, Len(s) - 1))
         + (CHOOSE d \in 0..9 : ToString(d) = s[Len(s)])

int(s) ==
    LET t == strip(s)
        signed == t # <<>> /\ t[1] \in {"+", "-"}
        digits == IF signed THEN Tail(t) ELSE t
    IN  IF ~isdigit(digits) THEN [ok |-> FALSE, value |-> 0]
        ELSE [ok |-> TRUE,
              value |-> IF signed /\ t[1] = "-" THEN 0 - DigitsValue(digits)
                        ELSE DigitsValue(digits)]

\* what one extraction library makes of the page: it raises, finds nothing, or
\* gives markdown (pieces of text, a piece with an href being a link) and what
\* it read in the head of the page
Extracted(kind, pieces, has_metadata, heading, author, date) ==
    [kind |-> kind, pieces |-> pieces, has_metadata |-> has_metadata,
     title |-> heading, author |-> author, date |-> date]

NoneExtracted(kind) == Extracted(kind, <<>>, FALSE, "", "", "")

Piece(text, href) == [text |-> text, href |-> href]

\* the markdown, and re.sub(r"\[([^\]]+)\]\([^\)]+\)", r"\1", markdown)
RECURSIVE markdown(_, _)
markdown(pieces, include_links) ==
    IF pieces = <<>> THEN ""
    ELSE (IF Head(pieces).href # "" /\ include_links
          THEN "[" \o Head(pieces).text \o "](" \o Head(pieces).href \o ")"
          ELSE Head(pieces).text)
         \o markdown(Tail(pieces), include_links)

Metadata(present, heading, author, date) ==
    [present |-> present, title |-> heading, author |-> author, date |-> date]

\* (content, metadata); content "" is None or the empty string
_extract_with_trafilatura(page, include_links) ==
    LET e == page.trafilatura
    IN  IF e.kind = "raise" THEN [content |-> "", metadata |-> Metadata(FALSE, "", "", "")]
        ELSE [content |-> markdown(e.pieces, include_links),
              metadata |-> IF e.has_metadata
                           THEN Metadata(TRUE, e.title, e.author, e.date)
                           ELSE Metadata(FALSE, "", "", "")]

_extract_with_readability(page, include_links) ==
    LET e == page.readability
    IN  IF e.kind = "raise" THEN [content |-> "", metadata |-> Metadata(FALSE, "", "", "")]
        ELSE [content |-> markdown(e.pieces, include_links),
              metadata |-> Metadata(TRUE, e.title, "", "")]

_extract_basic(page, include_links) ==
    LET e == page.basic
    IN  IF e.kind = "raise"
        THEN [content |-> "Error during extraction: unknown encoding",
              metadata |-> Metadata(FALSE, "", "", "")]
        ELSE IF e.kind = "none"
        THEN [content |-> "Could not find main content",
              metadata |-> Metadata(TRUE, e.title, e.author, "")]
        ELSE [content |-> markdown(e.pieces, include_links),
              metadata |-> Metadata(TRUE, e.title, e.author, "")]

\* content, metadata = <strategy>(...): the assignment of one strategy's pair
\* after the strategies of tried; tried lists the strategies invoked so far
Assigned(pair, tried, strategy) ==
    [content |-> pair.content, metadata |-> pair.metadata,
     tried |-> Append(tried, strategy)]

\* content = None; metadata = {}
NothingExtracted ==
    [content |-> "", metadata |-> Metadata(FALSE, "", "", ""), tried |-> <<>>]

\* the auto mode with the metadata of the first strategy that read any
auto_extract_first_metadata(v, page, include_links) ==
    LET keep(old, new) ==
            IF old.metadata.present THEN [new EXCEPT !.metadata = old.metadata] ELSE new
        first == IF v.has_trafilatura
                 THEN Assigned(_extract_with_trafilatura(page, include_links), <<>>,
                               "trafilatura")
                 ELSE NothingExtracted
        second == IF first.content = "" /\ v.has_readability
                  THEN keep(first, Assigned(_extract_with_readability(page, include_links),
                                            first.tried, "readability"))
                  ELSE first
    IN  IF second.content = ""
        THEN keep(second, Assigned(_extract_basic(page, include_links), second.tried, "basic"))
        ELSE second

\* the auto mode with every available strategy invoked before the first
\* non-empty content is chosen
auto_extract_eager(v, page, include_links) ==
    LET t == _extract_with_trafilatura(page, include_links)
        r == _extract_with_readability(page, include_links)
        b == _extract_basic(page, include_links)
        tried == (IF v.has_trafilatura THEN <<"trafilatura">> ELSE <<>>)
                 \o (IF v.has_readability THEN <<"readability">> ELSE <<>>) \o <<"basic">>
        chosen == IF v.has_trafilatura /\ t.content # "" THEN t
                  ELSE IF v.has_readability /\ r.content # "" THEN r
                  ELSE b
    IN  [content |-> chosen.content, metadata |-> chosen.metadata, tried |-> tried]

\* if method == "auto": trafilatura, then readability, then basic
auto_extract(v, page, include_links) ==
    LET first == IF v.has_trafilatura
                 THEN Assigned(_extract_with_trafilatura(page, include_links), <<>>,
                               "trafilatura")
                 ELSE NothingExtracted
        second == IF first.content = "" /\ v.has_readability
                  THEN Assigned(_extract_with_readability(page, include_links),
                                first.tried, "readability")
                  ELSE first
    IN  IF second.content = ""
        THEN Assigned(_extract_basic(page, include_links), second.tried, "basic")
        ELSE second

Page(trafilatura, readability, basic) ==
    [trafilatura |-> trafilatura, readability |-> readability, basic |-> basic]

\* what the libraries make of a page without a body
EmptyPage == Page(NoneExtracted("none"), NoneExtracted("raise"), NoneExtracted("none"))

\* what the three libraries make of one article
Article == <<Piece("Read ", ""), Piece("more", "http://b")>>

Readable == <<Piece("Read ", ""), Piece("on", "http://b")>>

Plain == <<Piece("Read all", "")>>

\* a page each of the three libraries finds content on
FullPage ==
    Page(Extracted("content", Article, TRUE, "T", "A", "2024"),
         Extracted("content", Readable, TRUE, "R", "", ""),
         Extracted("content", Plain, TRUE, "B", "", ""))

Pages ==
    {FullPage,
     Page(NoneExtracted("none"), NoneExtracted("raise"),
          Extracted("content", Article, TRUE, "", "A", "")),
     Page(NoneExtracted("raise"), Extracted("content", Readable, TRUE, "R", "", ""),
          NoneExtracted("raise")),
     Page(Extracted("none", <<>>, TRUE, "T", "", ""), NoneExtracted("none"),
          Extracted("content", <<>>, TRUE, "B", "", "")),
     Page(Extracted("none", <<>>, TRUE, "T", "A", "2024"),
          Extracted("none", <<>>, TRUE, "R", "", ""),
          Extracted("content", Plain, TRUE, "B", "", ""))}

\* a response to requests.get(url): its Content-Length header (<<>> when it has
\* none) and its page
WebBody(content_length, size, page) ==
    Http(200, "object", [content_length |-> content_length, size |-> size, page |-> page])

\* a response whose Content-Length, when it has one that is a number, is the
\* size of its body in bytes
WebPage(content_length, page) ==
    WebBody(content_length,
            IF content_length # <<>> /\ int(content_length).ok
            THEN int(content_length).value ELSE 12,
            page)

\* a body of more than max_content_length bytes sent in chunks, without a
\* Content-Length header
ChunkedLargeBody == WebBody(<<>>, max_content_length + 1, FullPage)

WebResponses ==
    {WebPage(<<>>, p) : p \in Pages}
    \cup {WebPage(cl, EmptyPage) : cl \in {<<"1", "2">>, <<"2", "0", "0", "0", "0", "0", "0">>, <<"a", "b", "c">>}}
    \cup {ChunkedLargeBody}
    \cup {ConnectionError, Timeout, Http(404, "notjson", NoData), Unread}

\* the schemes requests has a connection adapter for
Adapters == {<<"h", "t", "t", "p">>, <<"h", "t", "t", "p", "s">>}

\* fetch_url_content, run from c on: fetch_multiple_urls awaits it in its loop.
\* The cross mark that opens the two messages about the URL is written (x):
\* a string of this module holds ASCII only.
fetch_url_content_from(c, v, url, user) ==
    Bind(pl_user_valves(c, user), LAMBDA c0 :
    LET method == user.preferred_method
    IN  Bind(web_status(c0, v, "Fetching content from " \o Str(url) \o "...", FALSE, FALSE), LAMBDA c1 :
    LET parsed == urlparse(url)
        r == Head(c1.up)
    \* requests.get(url, ...); after is the number of events the callback had
    \* been given when the request was sent
    IN  Bind([c1 EXCEPT !.up = Tail(@),
                         !.resp = r,
                         !.reqs = Append(@, [method |-> "GET", url |-> Str(url),
                                             params |-> <<>>, json |-> NoData,
                                             authorization |-> "",
                                             timeout |-> default_timeout,
                                             after |-> Len(c1.events)])], LAMBDA c2 :
    LET content_length == Get(r, "content_length", <<>>)
        page == Get(r, "page", EmptyPage)
    IN  Bind(web_status(c2, v, "Extracting content using " \o method \o " method...",
                         FALSE, FALSE), LAMBDA c3 :
    LET extracted ==
            IF method = "auto" THEN auto_extract(v, page, user.include_links)
            ELSE IF method = "trafilatura"
            THEN _extract_with_trafilatura(page, user.include_links)
            ELSE IF method = "readability"
            THEN _extract_with_readability(page, user.include_links)
            ELSE _extract_basic(page, user.include_links)
        content == extracted.content
        metadata == extracted.metadata
    IN  Bind(Emit(c3, CitationEvent(content,
                                     IF metadata.present THEN metadata.title ELSE Str(url),
                                     Str(url))), LAMBDA c4 :
    Bind(web_status(c4, v, "Content extracted successfully", TRUE, TRUE), LAMBDA c5 :
    LET output ==
            (IF user.show_metadata
             THEN "# " \o (IF metadata.present THEN metadata.title ELSE "Web Content") \o "\n"
                  \o "**Source:** " \o Str(url) \o "\n"
                  \o (IF metadata.author # ""
                      THEN "**Author:** " \o metadata.author \o "\n" ELSE "")
                  \o (IF metadata.date # "" THEN "**Date:** " \o metadata.date \o "\n" ELSE "")
                  \o "\n---\n\n"
             ELSE "")
            \o content
        extract ==
            IF c3.pc # "run" THEN c3
            ELSE IF method = "trafilatura" /\ ~v.has_trafilatura
            THEN Return(c3, "Trafilatura not available. "
                            \o "Change method to 'auto' or 'basic' in user settings.")
            ELSE IF method = "readability" /\ ~v.has_readability
            THEN Return(c3, "Readability not available. "
                            \o "Change method to 'auto' or 'basic' in user settings.")
            ELSE IF method \notin {"auto", "trafilatura", "readability", "basic"}
            THEN Return(c3, "Unknown extraction method: " \o method)
            ELSE IF content = "" THEN Return(c3, "Could not extract content from the page")
            ELSE Return(c5, output)
        fetch ==
            IF parsed.scheme \notin Adapters
            THEN Return(web_status(c1, v, "Failed to fetch URL", TRUE, FALSE),
                        "Error fetching URL: No connection adapters were found for '"
                        \o Str(url) \o "'")
            ELSE IF r.kind = "timeout"
            THEN Return(web_status(c2, v, "Request timed out", TRUE, FALSE),
                        "Request timed out after " \o ToString(default_timeout) \o " seconds")
            ELSE IF r.kind = "connection" \/ raise_for_status(r)
            THEN Return(web_status(c2, v, "Failed to fetch URL", TRUE, FALSE),
                        "Error fetching URL: " \o RequestError(r))
            ELSE IF content_length # <<>> /\ ~int(content_length).ok
            THEN Raise(c2, "invalid literal for int() with base 10: '"
                           \o Str(content_length) \o "'")
            ELSE IF content_length # <<>> /\ int(content_length).value > max_content_length
            THEN Return(c2, "Content too large (" \o Str(content_length)
                            \o " bytes). Maximum: " \o ToString(max_content_length))
            ELSE extract
    IN  IF c1.pc # "run" THEN c1
        ELSE IF parsed.error THEN Return(c1, "(x) Invalid URL: Invalid IPv6 URL")
        ELSE IF parsed.scheme = <<>> \/ parsed.netloc = <<>>
        THEN Return(c1, "(x) Invalid URL format. "
                        \o "Please provide a complete URL (e.g., https://example.com)")
        ELSE fetch))))))

fetch_url_content(v, a, cb, up) == fetch_url_content_from(Start(cb, up), v, a.url, a.user)

\* a round that fetches the URL before it reports that it processes it
UrlStep_late(c, v, user, url_list, i) ==
    LET n == ToString(Len(url_list))
    IN  Bind(fetch_url_content_from(c, v, url_list[i], user), LAMBDA c1 :
    Bind(web_status([c1 EXCEPT !.pc = IF @ = "ret" THEN "run" ELSE @], v,
                    "Processing URL " \o ToString(i) \o "/" \o n \o ": "
                    \o Str(url_list[i]), FALSE, FALSE), LAMBDA c2 :
    IF c.pc # "run" THEN c
        ELSE IF c1.pc = "ret" /\ c2.pc = "run"
        THEN [c2 EXCEPT !.val = "",
                        !.out = @ \o c1.val
                                \o (IF i < Len(url_list) THEN "\n\n---\n\n" ELSE "")]
        ELSE c2))

\* one round of "for i, url in enumerate(url_list, 1)", run from c on
UrlStep(c, v, user, url_list, i) ==
    LET n == ToString(Len(url_list))
    IN  Bind(web_status(c, v, "Processing URL " \o ToString(i) \o "/" \o n \o ": "
                               \o Str(url_list[i]), FALSE, FALSE), LAMBDA c1 :
    Bind(fetch_url_content_from(c1, v, url_list[i], user), LAMBDA c2 :
    IF c.pc # "run" THEN c
        ELSE IF c2.pc = "ret"
        THEN [c2 EXCEPT !.pc = "run", !.val = "",
                        !.out = @ \o c2.val
                                \o (IF i < Len(url_list) THEN "\n\n---\n\n" ELSE "")]
        ELSE c2))

fetch_multiple_urls(v, a, cb, up) ==
    LET url_list == SelectNonBlank(split(a.urls, <<",">>))
        n == ToString(Len(url_list))
    IN  Bind(web_status(Start(cb, up), v, "Processing " \o n \o " URLs...", FALSE, FALSE), LAMBDA c1 :
    LET round[i \in 0..Len(url_list)] ==
            IF i = 0 THEN c1 ELSE UrlStep(round[i - 1], v, a.user, url_list, i)
    IN  Bind(round[Len(url_list)], LAMBDA c2 :
    Bind(web_status(c2, v, "Completed processing " \o n \o " URLs", TRUE, TRUE), LAMBDA c3 :
    IF url_list = <<>>
        THEN Return(Start(cb, up),
                    "No valid URLs provided. Please provide comma-separated URLs.")
        ELSE Return(c3, c3.out))))

----------------------------------------------------------------------------
(* src/tools/alphavantage.py *)

AvValves ==
    [ALPHAVANTAGE_URL : {"https://www.alphavantage.co/query"},
     ALPHAVANTAGE_API_KEY : {"", "key"}]

\* EventEmitter.emit: "if self.event_emitter: await self.event_emitter({...})"
emit(c, description, status, done) ==
    Emit(c, [StatusEvent(description, done, FALSE) EXCEPT !.status = status])

progress_update(c, description) == emit(c, description, "in_progress", FALSE)

error_update(c, description) == emit(c, description, "error", TRUE)

\* a success reported as still in progress
success_update_open(c, description) == emit(c, description, "success", FALSE)

success_update(c, description) == emit(c, description, "success", TRUE)

\* a JSON object of strings, as the pairs of its members
AvResponses ==
    {Http(200, "object", [members |-> <<<<"Global Quote", "189.84">>>>]),
     Http(200, "object", [members |-> <<<<"Error Message", "Invalid API call.">>>>]),
     Http(200, "object",
          [members |-> <<<<"Information", "the parameter apikey is invalid or missing">>>>]),
     Http(200, "empty", NoData), Http(200, "scalar", NoData),
     Http(200, "notjson", NoData), Http(500, "notjson", NoData), ConnectionError}

\* json.dumps(response.json(), ensure_ascii=False)
RECURSIVE dumps_members(_)
dumps_members(members) ==
    IF members = <<>> THEN ""
    ELSE "\"" \o members[1][1] \o "\": \"" \o members[1][2] \o "\""
         \o (IF Len(members) > 1 THEN ", " ELSE "") \o dumps_members(Tail(members))

dumps(r) ==
    IF r.body = "scalar" THEN "5"
    ELSE "{" \o dumps_members(Get(r, "members", <<>>)) \o "}"

\* the four operations with a handler that returns str(e) as it is
av_query_unnamed(v, cb, up, function, params, progress, done, what) ==
    Bind(progress_update(Start(cb, up), progress), LAMBDA c1 :
    LET r == Head(c1.up)
    IN  Bind([c1 EXCEPT !.up = Tail(@),
                         !.resp = r,
                         !.reqs = Append(@, [method |-> "GET", url |-> v.ALPHAVANTAGE_URL,
                                             params |-> <<<<"function", function>>>> \o params
                                                        \o <<<<"apikey",
                                                               v.ALPHAVANTAGE_API_KEY>>>>,
                                             json |-> NoData, authorization |-> "",
                                             timeout |-> 0])], LAMBDA c2 :
    LET body ==
            IF c1.pc # "run" THEN c1
            ELSE IF r.kind # "http" \/ raise_for_status(r) \/ ~has_json(r)
            THEN Raise(c2, RequestError(r))
            ELSE Return(success_update(c2, done), dumps(r))
        handler(c, e) == Return(error_update(c, e), e)
    IN  Except(body, handler)))

\* the body the four operations share: function names the API function,
\* params the other query parameters, what and done the wording
av_query(v, cb, up, function, params, progress, done, what) ==
    Bind(progress_update(Start(cb, up), progress), LAMBDA c1 :
    LET r == Head(c1.up)
    IN  Bind([c1 EXCEPT !.up = Tail(@),
                         !.resp = r,
                         !.reqs = Append(@, [method |-> "GET", url |-> v.ALPHAVANTAGE_URL,
                                             params |-> <<<<"function", function>>>> \o params
                                                        \o <<<<"apikey",
                                                               v.ALPHAVANTAGE_API_KEY>>>>,
                                             json |-> NoData, authorization |-> "",
                                             timeout |-> 0])], LAMBDA c2 :
    LET body ==
            IF c1.pc # "run" THEN c1
            ELSE IF r.kind # "http" \/ raise_for_status(r) \/ ~has_json(r)
            THEN Raise(c2, RequestError(r))
            ELSE Return(success_update(c2, done), dumps(r))
        handler(c, e) == Return(error_update(c, what \o ": " \o e), what \o ": " \o e)
    IN  Except(body, handler)))

get_daily_time_series(v, a, cb, up) ==
    av_query(v, cb, up, "TIME_SERIES_DAILY", <<<<"symbol", a.symbol>>>>,
             "Fetching daily time series for " \o a.symbol,
             "Received daily time series data for " \o a.symbol,
             "Error fetching daily time series data")

get_intraday_series(v, a, cb, up) ==
    av_query(v, cb, up, "TIME_SERIES_INTRADAY",
             <<<<"symbol", a.symbol>>, <<"interval", a.interval>>>>,
             "Fetching intraday time series for " \o a.symbol \o " with interval "
             \o a.interval,
             "Received intraday time series data for " \o a.symbol,
             "Error fetching intraday data")

get_global_quote(v, a, cb, up) ==
    av_query(v, cb, up, "GLOBAL_QUOTE", <<<<"symbol", a.symbol>>>>,
             "Fetching global quote for " \o a.symbol,
             "Received global quote for " \o a.symbol,
             "Error fetching global quote")

search_symbol(v, a, cb, up) ==
    av_query(v, cb, up, "SYMBOL_SEARCH", <<<<"keywords", a.keywords>>>>,
             "Searching symbols for keyword '" \o a.keywords \o "'",
             "Search completed for keyword '" \o a.keywords \o "'",
             "Error searching symbols")

----------------------------------------------------------------------------
(* The tool instance and its operations *)

Tools == {"github", "paperless", "web", "alphavantage"}

ValvesOf(t) ==
    CASE t = "github" -> GhValves
      [] t = "paperless" -> PlValves
      [] t = "web" -> WebValves
      [] t = "alphavantage" -> AvValves

\* await tools.<op>(**a, __event_emitter__=cb), the upstream answering with up
Handle(v, op, a, cb, up) ==
    CASE op = "read_file" -> read_file(v, a, cb, up)
      [] op = "list_repository_files" -> list_repository_files(v, a, cb, up)
      [] op = "get_repository_info" -> get_repository_info(v, a, cb, up)
      [] op = "list_my_gists" -> list_my_gists(v, a, cb, up)
      [] op = "get_gist" -> get_gist(v, a, cb, up)
      [] op = "create_gist" -> create_gist(v, a, cb, up)
      [] op = "update_gist" -> update_gist(v, a, cb, up)
      [] op = "delete_gist" -> delete_gist(v, a, cb, up)
      [] op = "list_workflow_runs" -> list_workflow_runs(v, a, cb, up)
      [] op = "get_workflow_run" -> get_workflow_run(v, a, cb, up)
      [] op = "trigger_workflow" -> trigger_workflow(v, a, cb, up)
      [] op = "list_workflows" -> list_workflows(v, a, cb, up)
      [] op = "cancel_workflow_run" -> cancel_workflow_run(v, a, cb, up)
      [] op = "search_documents" -> search_documents(v, a, cb, up)
      [] op = "get_document_by_id" -> get_document_by_id(v, a, cb, up)
      [] op = "find_similar_documents" -> find_similar_documents(v, a, cb, up)
      [] op = "advanced_document_search" -> advanced_document_search(v, a, cb, up)
      [] op = "list_all_tags" -> list_all_tags(v, a, cb, up)
      [] op = "search_by_tags" -> search_by_tags(v, a, cb, up)
      [] op = "list_correspondents" -> list_correspondents(v, a, cb, up)
      [] op = "fetch_url_content" -> fetch_url_content(v, a, cb, up)
      [] op = "fetch_multiple_urls" -> fetch_multiple_urls(v, a, cb, up)
      [] op = "get_daily_time_series" -> get_daily_time_series(v, a, cb, up)
      [] op = "get_intraday_series" -> get_intraday_series(v, a, cb, up)
      [] op = "get_global_quote" -> get_global_quote(v, a, cb, up)
      [] op = "search_symbol" -> search_symbol(v, a, cb, up)

NoCall == [op |-> "", args |-> [none |-> TRUE], cb |-> NoCallback, up |-> <<>>]

Init ==
    /\ tool \in Tools
    /\ valves \in ValvesOf(tool)
    /\ call = NoCall
    /\ pc = "idle"
    /\ ret = ""
    /\ events = <<>>
    /\ reqs = <<>>

\* the operation op ran with args, cb and up to c.  A handler reads nothing but
\* self.valves and its arguments, so it is called from the idle instance only;
\* Collect takes the instance back there.  The responses the handler did not
\* ask for are Unread.
Invoke(op, args, cb, up, c) ==
    /\ \A i \in 1..Len(c.up) : c.up[i] = Unread
    /\ call' = [op |-> op, args |-> args, cb |-> cb, up |-> up]
    /\ pc' = IF c.pc = "exc" THEN "raised" ELSE "returned"
    /\ ret' = c.val
    /\ events' = c.events
    /\ reqs' = c.reqs
    /\ UNCHANGED <<tool, valves>>

Idle(t) == pc = "idle" /\ tool = t

\* the owner/repo arguments of the model
RepoChars == {"o", "/", " "}

Repos == SeqsUpTo(RepoChars, MaxRepoLen)

RepoSamples == {<<"o", "/", "o">>, <<"o", "o">>}

\* the files and inputs arguments of the model
FilesChars == {"f", "=", "|", " "}

FilesArgs == SeqsUpTo(FilesChars, MaxFilesLen)

FilesSamples ==
    {<<"f", "=", "f">>, <<"f", "=", "|", "|", "|", "f", "=", "f">>, <<" ", "f", "=", "f", "|", "|", "|", "f", " ", "=">>, <<"f">>, <<"f", "=", "f", "|", "|", "|">>, <<"{", "f">>}

\* the failures the operations of every tool are run against
FewFailures == {ConnectionError, Http(401, "notjson", NoData), Http(200, "notjson", NoData)}

\* file_path and branch
FileArgs == {<<<<"src/main", "py">>, "">>, <<<<"docs/my notes", "md">>, "dev">>}

GhReadFile(REPOS, F, CBS) ==
    /\ Idle("github")
    /\ \E repo \in REPOS, file \in FileArgs, user \in GhUsers, cb \in CBS,
          up \in Upstreams(FileResponses \cup F, 1) :
          LET args == [repo |-> repo, file_path |-> file[1], branch |-> file[2],
                       user |-> user]
          IN  Invoke("read_file", args, cb, up, read_file(valves, args, cb, up))

GhListRepositoryFiles(REPOS, F, CBS) ==
    /\ Idle("github")
    /\ \E repo \in REPOS, file \in {<<"", "">>, <<"docs/my notes.md", "dev">>}, cb \in CBS,
          up \in Upstreams(ListingResponses \cup F, 1) :
          LET args == [repo |-> repo, path |-> file[1], branch |-> file[2]]
          IN  Invoke("list_repository_files", args, cb, up, list_repository_files(valves, args, cb, up))

GhGetRepositoryInfo(REPOS, F, CBS) ==
    /\ Idle("github")
    /\ \E repo \in REPOS, cb \in CBS, r1 \in RepoResponses \cup F,
          r2 \in LanguagesResponses \cup F :
          LET args == [repo |-> repo]
          IN  Invoke("get_repository_info", args, cb, <<r1, r2>>, get_repository_info(valves, args, cb, <<r1, r2>>))

GhListMyGists(F, CBS) ==
    /\ Idle("github")
    /\ \E limit \in Limits, cb \in CBS, up \in Upstreams(GistListResponses \cup F, 1) :
          LET args == [limit |-> limit]
          IN  Invoke("list_my_gists", args, cb, up, list_my_gists(valves, args, cb, up))

GhGetGist(F, CBS) ==
    /\ Idle("github")
    /\ \E user \in GhUsers, cb \in CBS, up \in Upstreams(GistResponses \cup F, 1) :
          LET args == [gist_id |-> "g1", user |-> user]
          IN  Invoke("get_gist", args, cb, up, get_gist(valves, args, cb, up))

GhCreateGist(FILES, F, CBS) ==
    /\ Idle("github")
    /\ \E files \in FILES, public \in BOOLEAN, cb \in CBS,
          up \in Upstreams(CreatedResponses \cup F, 1) :
          LET args == [description |-> "Notes", files |-> files, public |-> public]
          IN  Invoke("create_gist", args, cb, up, create_gist(valves, args, cb, up))

GhUpdateGist(FILES, F, CBS) ==
    /\ Idle("github")
    /\ \E files \in FILES \cup {<<>>}, description \in {"", "Notes"}, cb \in CBS,
          up \in Upstreams(CreatedResponses \cup F, 1) :
          LET args == [gist_id |-> "g9", description |-> description, files |-> files]
          IN  Invoke("update_gist", args, cb, up, update_gist(valves, args, cb, up))

GhDeleteGist(F, CBS) ==
    /\ Idle("github")
    /\ \E cb \in CBS, up \in Upstreams(AcceptedResponses \cup F, 1) :
          LET args == [gist_id |-> "g9"]
          IN  Invoke("delete_gist", args, cb, up, delete_gist(valves, args, cb, up))

\* workflow_id, status and limit
RunsArgs == {<<"", "", 10>>, <<"ci.yml", "completed", 101>>, <<"", "completed", 0>>}

GhListWorkflowRuns(REPOS, F, CBS) ==
    /\ Idle("github")
    /\ \E repo \in REPOS, runs \in RunsArgs, cb \in CBS,
          up \in Upstreams(RunsResponses \cup F, 1) :
          LET args == [repo |-> repo, workflow_id |-> runs[1], branch |-> "dev",
                       status |-> runs[2], limit |-> runs[3]]
          IN  Invoke("list_workflow_runs", args, cb, up, list_workflow_runs(valves, args, cb, up))

GhGetWorkflowRun(REPOS, F, CBS) ==
    /\ Idle("github")
    /\ \E repo \in REPOS, run_id \in RunIds, cb \in CBS, r1 \in RunResponses \cup F,
          r2 \in JobsResponses \cup F :
          LET args == [repo |-> repo, run_id |-> run_id]
          IN  Invoke("get_workflow_run", args, cb, <<r1, r2>>, get_workflow_run(valves, args, cb, <<r1, r2>>))

GhTriggerWorkflow(REPOS, INPUTS, F, CBS) ==
    /\ Idle("github")
    /\ \E repo \in REPOS, workflow_id \in WorkflowIds, inputs \in INPUTS \cup {<<>>},
          cb \in CBS, up \in Upstreams(AcceptedResponses \cup F, 1) :
          LET args == [repo |-> repo, workflow_id |-> workflow_id, ref |-> "main",
                       inputs |-> inputs]
          IN  Invoke("trigger_workflow", args, cb, up, trigger_workflow(valves, args, cb, up))

GhListWorkflows(REPOS, F, CBS) ==
    /\ Idle("github")
    /\ \E repo \in REPOS, cb \in CBS, up \in Upstreams(WorkflowsResponses \cup F, 1) :
          LET args == [repo |-> repo]
          IN  Invoke("list_workflows", args, cb, up, list_workflows(valves, args, cb, up))

GhCancelWorkflowRun(REPOS, F, CBS) ==
    /\ Idle("github")
    /\ \E repo \in REPOS, run_id \in RunIds, cb \in CBS,
          up \in Upstreams(AcceptedResponses \cup F, 1) :
          LET args == [repo |-> repo, run_id |-> run_id]
          IN  Invoke("cancel_workflow_run", args, cb, up, cancel_workflow_run(valves, args, cb, up))

\* GET /api/documents/{id}/ for the content of a listed document
ContentResponses ==
    {Http(200, "object", Document(7, "Tax", <<"a", "b", "c", "d", "e">>)),
     Http(404, "notjson", NoData), Http(200, "empty", NoData)}

\* the callers the listings are run for
FewPlUsers == {u \in PlUsers : u.cls \in {"absent", "UserValves", "int"}}

PlSearchDocuments(CBS) ==
    /\ Idle("paperless")
    /\ \E user \in PlUsers, cb \in CBS, r1 \in DocsResponses \cup PlFailures,
          r2 \in ContentResponses, r3 \in DocResponses :
          LET args == [query |-> "tax", user |-> user]
          IN  Invoke("search_documents", args, cb, <<r1, r2, r3>>, search_documents(valves, args, cb, <<r1, r2, r3>>))

PlGetDocumentById(CBS) ==
    /\ Idle("paperless")
    /\ \E user \in PlUsers, cb \in CBS, r1 \in DocResponses \cup PlFailures,
          r2 \in DocResponses \cup {Http(404, "notjson", NoData), ConnectionError} :
          LET args == [document_id |-> 7, user |-> user]
          IN  Invoke("get_document_by_id", args, cb, <<r1, r2>>, get_document_by_id(valves, args, cb, <<r1, r2>>))

PlFindSimilarDocuments(CBS) ==
    /\ Idle("paperless")
    /\ \E user \in PlUsers, cb \in CBS, r1 \in DocResponses \cup PlFailures,
          r2 \in DocsResponses \cup PlFailures :
          LET args == [document_id |-> 7, user |-> user]
          IN  Invoke("find_similar_documents", args, cb, <<r1, r2>>, find_similar_documents(valves, args, cb, <<r1, r2>>))

PlAdvancedDocumentSearch(CBS) ==
    /\ Idle("paperless")
    /\ \E filter \in {<<"tax", "", "">>, <<"", "3", "2024-01-01">>, <<"", "", "">>},
          user \in FewPlUsers, cb \in CBS, r1 \in DocsResponses \cup FewFailures,
          r2 \in ContentResponses, r3 \in ContentResponses :
          LET args == [query |-> filter[1], tags |-> filter[2], created_after |-> filter[3], user |-> user]
          IN  Invoke("advanced_document_search", args, cb, <<r1, r2, r3>>, advanced_document_search(valves, args, cb, <<r1, r2, r3>>))

PlListAllTags(CBS) ==
    /\ Idle("paperless")
    /\ \E cb \in CBS, up \in Upstreams(TagsResponses \cup ShuffledTags \cup PlFailures, 1) :
          LET args == [none |-> TRUE]
          IN  Invoke("list_all_tags", args, cb, up, list_all_tags(valves, args, cb, up))

TagsSamples == {<<"t", "a", "x">>, <<"5", ",", " ", "T", "A", "X">>, <<" ", ",", " ">>, <<"t", "o", "x">>}

PlSearchByTags(CBS) ==
    /\ Idle("paperless")
    /\ \E tags \in TagsSamples, user \in FewPlUsers, cb \in CBS,
          r1 \in TagsResponses \cup FewFailures, r2 \in DocsResponses \cup FewFailures,
          r3 \in ContentResponses, r4 \in ContentResponses :
          LET args == [tags |-> tags, match_all |-> Len(tags) > 3, user |-> user]
          IN  Invoke("search_by_tags", args, cb, <<r1, r2, r3, r4>>, search_by_tags(valves, args, cb, <<r1, r2, r3, r4>>))

PlListCorrespondents(CBS) ==
    /\ Idle("paperless")
    /\ \E cb \in CBS, up \in Upstreams(TagsResponses \cup ShuffledTags \cup PlFailures, 1) :
          LET args == [none |-> TRUE]
          IN  Invoke("list_correspondents", args, cb, up, list_correspondents(valves, args, cb, up))

UrlSamples == {<<"h", "t", "t", "p", ":", "/", "/", "a">>, <<"a">>, <<"h", "t", "t", "p", ":", "/", "/", "[">>, <<"f", "t", "p", ":", "/", "/", "a">>}

UrlsSamples == {<<"h", "t", "t", "p", ":", "/", "/", "a", ",", "h", "t", "t", "p", ":", "/", "/", "b">>, <<" ", ",", " ">>, <<"h", "t", "t", "p", ":", "/", "/", "a", ",", " ", "a">>}

WebFetchUrlContent(CBS) ==
    /\ Idle("web")
    /\ \E url \in UrlSamples, user \in WebUsers, cb \in CBS,
          up \in Upstreams(WebResponses, 1) :
          LET args == [url |-> url, user |-> user]
          IN  Invoke("fetch_url_content", args, cb, up, fetch_url_content(valves, args, cb, up))

WebFetchMultipleUrls(CBS) ==
    /\ Idle("web")
    /\ \E urls \in UrlsSamples,
          user \in {u \in WebUsers : u.cls \in {"absent", "int"} \/ u.preferred_method = "basic"},
          cb \in CBS,
          up \in Upstreams({r \in WebResponses :
                               r.kind = "timeout" \/ Get(r, "page", EmptyPage) = EmptyPage},
                           2) :
          LET args == [urls |-> urls, user |-> user]
          IN  Invoke("fetch_multiple_urls", args, cb, up, fetch_multiple_urls(valves, args, cb, up))

Symbols == {"IBM", ""}

AvGetDailyTimeSeries(CBS) ==
    /\ Idle("alphavantage")
    /\ \E symbol \in Symbols, cb \in CBS, up \in Upstreams(AvResponses, 1) :
          LET args == [symbol |-> symbol]
          IN  Invoke("get_daily_time_series", args, cb, up, get_daily_time_series(valves, args, cb, up))

AvGetIntradaySeries(CBS) ==
    /\ Idle("alphavantage")
    /\ \E symbol \in Symbols, interval \in {"5min", "15min"}, cb \in CBS,
          up \in Upstreams(AvResponses, 1) :
          LET args == [symbol |-> symbol, interval |-> interval]
          IN  Invoke("get_intraday_series", args, cb, up, get_intraday_series(valves, args, cb, up))

AvGetGlobalQuote(CBS) ==
    /\ Idle("alphavantage")
    /\ \E symbol \in Symbols, cb \in CBS, up \in Upstreams(AvResponses, 1) :
          LET args == [symbol |-> symbol]
          IN  Invoke("get_global_quote", args, cb, up, get_global_quote(valves, args, cb, up))

AvSearchSymbol(CBS) ==
    /\ Idle("alphavantage")
    /\ \E keywords \in {"ibm", "big blue"}, cb \in CBS, up \in Upstreams(AvResponses, 1) :
          LET args == [keywords |-> keywords]
          IN  Invoke("search_symbol", args, cb, up, search_symbol(valves, args, cb, up))

\* the caller has taken the result: the instance is as it was constructed
Collect ==
    /\ pc # "idle"
    /\ call' = NoCall
    /\ pc' = "idle"
    /\ ret' = ""
    /\ events' = <<>>
    /\ reqs' = <<>>
    /\ UNCHANGED <<tool, valves>>

Next ==
    \/ GhReadFile(RepoSamples, FailureResponses, Callbacks)
    \/ GhListRepositoryFiles(RepoSamples, FailureResponses, Callbacks)
    \/ GhGetRepositoryInfo(RepoSamples, FailureResponses, Callbacks)
    \/ GhListMyGists(FailureResponses, Callbacks)
    \/ GhGetGist(FailureResponses, Callbacks)
    \/ GhCreateGist(FilesSamples, FailureResponses, Callbacks)
    \/ GhUpdateGist(FilesSamples, FailureResponses, Callbacks)
    \/ GhDeleteGist(FailureResponses, Callbacks)
    \/ GhListWorkflowRuns(RepoSamples, FailureResponses, Callbacks)
    \/ GhGetWorkflowRun(RepoSamples, FailureResponses, Callbacks)
    \/ GhTriggerWorkflow(RepoSamples, FilesSamples, FailureResponses, Callbacks)
    \/ GhListWorkflows(RepoSamples, FailureResponses, Callbacks)
    \/ GhCancelWorkflowRun(RepoSamples, FailureResponses, Callbacks)
    \/ PlSearchDocuments(Callbacks)
    \/ PlGetDocumentById(Callbacks)
    \/ PlFindSimilarDocuments(Callbacks)
    \/ PlAdvancedDocumentSearch(Callbacks)
    \/ PlListAllTags(Callbacks)
    \/ PlSearchByTags(Callbacks)
    \/ PlListCorrespondents(Callbacks)
    \/ WebFetchUrlContent(Callbacks)
    \/ WebFetchMultipleUrls(Callbacks)
    \/ AvGetDailyTimeSeries(Callbacks)
    \/ AvGetIntradaySeries(Callbacks)
    \/ AvGetGlobalQuote(Callbacks)
    \/ AvSearchSymbol(Callbacks)
    \/ Collect

Spec == Init /\ [][Next]_vars

----------------------------------------------------------------------------
(* Properties of the operations *)

\* an operation has run and its caller has not yet taken the result
Invoked == pc # "idle"

\* the callback of the invocation raises when it is invoked
Unreliable(cb) == cb.present /\ cb.failFrom # 0

\* the invocation passed an in-progress status event to the callback
InProgressEmitted ==
    \E i \in 1..Len(events) : events[i].type = "status" /\ ~events[i].done

\* C1: no tool operation ever raises to its caller; for every input, caller
\* context and upstream answer it terminates by returning a string.  Stated
\* here for the callers whose callback never fails.
C1_NeverRaises == (Invoked /\ ~Unreliable(call.cb)) => pc = "returned"

\* the message an operation answers with when its token is not configured;
\* "" for the operations that need none
TokenMessage(op) ==
    CASE op = "list_my_gists" -> "GitHub token required to list your gists"
      [] op = "create_gist" -> "GitHub token required to create gists"
      [] op = "update_gist" -> "GitHub token required to update gists"
      [] op = "delete_gist" -> "GitHub token required to delete gists"
      [] op = "trigger_workflow" -> "GitHub token required to trigger workflows"
      [] op = "cancel_workflow_run" -> "GitHub token required to cancel workflow runs"
      [] op = "search_documents" ->
             "Paperless-ngx API token not configured. Please set it in the tool settings."
      [] op \in {"get_document_by_id", "find_similar_documents",
                 "advanced_document_search", "list_all_tags", "search_by_tags",
                 "list_correspondents"} -> "Paperless-ngx API token not configured."
      [] OTHER -> ""

TokenEmpty ==
    \/ tool = "github" /\ valves.github_token = ""
    \/ tool = "paperless" /\ valves.api_token = ""

\* C2: with an empty token, every token-requiring operation (the six GitHub
\* operations that need one, every Paperless operation) returns its fixed
\* message, sends no HTTP request and emits no event.
C2_NoTokenNoEffect ==
    (Invoked /\ TokenEmpty /\ TokenMessage(call.op) # "") =>
        /\ pc = "returned"
        /\ ret = TokenMessage(call.op)
        /\ reqs = <<>>
        /\ events = <<>>

\* a Paperless search invoked without a token, for a caller whose settings
\* are invalid and whose callback fails at once: it returned all the same
C2_Witness ==
    /\ pc = "returned"
    /\ tool = "paperless" /\ valves.api_token = "" /\ valves.enable_status_updates
    /\ call.op = "search_documents"
    /\ call.args.user.cls = "invalid dict"
    /\ call.cb.present /\ call.cb.failFrom = 1

\* C3: with an empty Alpha Vantage API key, every Alpha Vantage operation
\* reports the missing credential and sends no HTTP request.
C3_NoKeyNoRequest ==
    (Invoked /\ tool = "alphavantage" /\ valves.ALPHAVANTAGE_API_KEY = "") =>
        reqs = <<>>

\* C4: an operation that has emitted an in-progress status event (done = false)
\* emits a terminal status event (done = true) after it, before it returns, on
\* every outcome.  Stated here for the callers whose callback never fails.
C4_TerminalStatus ==
    (pc = "returned" /\ ~Unreliable(call.cb)) =>
        \A i \in 1..Len(events) :
            (events[i].type = "status" /\ ~events[i].done) =>
                \E j \in (i + 1)..Len(events) :
                    events[j].type = "status" /\ events[j].done

\* C5: the callback never affects the result; an operation that returns a
\* string when no callback is supplied returns the same string, for the same
\* arguments, settings and upstream answers, whatever the callback supplied does.
C5_CallbackIrrelevant ==
    Invoked =>
        LET alone == Handle(valves, call.op, call.args, NoCallback, call.up)
        IN  alone.pc = "ret" => (pc = "returned" /\ ret = alone.val)

\* the upstream did not answer the request, or answered it with an error status
Failed(r) == r.kind # "http" \/ (r.code >= 400 /\ r.code <= 599)

\* the i-th request of the operation is one whose failure the code passes
\* over: the languages of get_repository_info, the jobs of get_workflow_run,
\* the content of a document of a Paperless search
Ignored(op, i) ==
    \/ op \in {"get_repository_info", "get_workflow_run", "get_document_by_id"} /\ i = 2
    \/ op \in {"search_documents", "advanced_document_search"} /\ i >= 2
    \/ op = "search_by_tags" /\ i >= 3

\* the class of a GitHub error status code
GhClass(code) ==
    CASE code = 401 -> "Authentication failed"
      [] code = 404 -> "Not found"
      [] code = 403 -> "Rate limit or access forbidden"
      [] OTHER -> "API error: " \o ToString(code)

\* the error string an operation answers the failed response r with
ErrorFor(op, r) ==
    CASE tool = "github" ->
             "Error: " \o (IF r.kind = "http" THEN GhClass(r.code)
                           ELSE "Request failed: " \o TransportError(r))
      [] tool = "paperless" ->
             (CASE op = "search_documents" -> "Error searching documents"
                [] op = "get_document_by_id" ->
                       "Error retrieving document #" \o ToString(call.args.document_id)
                [] op = "find_similar_documents" -> "Error finding similar documents"
                [] op = "advanced_document_search" -> "Error in advanced search"
                [] op = "list_all_tags" -> "Error retrieving tags"
                [] op = "list_correspondents" -> "Error retrieving correspondents"
                [] op = "search_by_tags" -> "Error searching by tags")
             \o ": API request failed: " \o RequestError(r)
      [] tool = "web" ->
             IF r.kind = "timeout" THEN "Request timed out after 30 seconds"
             ELSE "Error fetching URL: " \o RequestError(r)
      [] tool = "alphavantage" ->
             (CASE op = "get_daily_time_series" -> "Error fetching daily time series data"
                [] op = "get_intraday_series" -> "Error fetching intraday data"
                [] op = "get_global_quote" -> "Error fetching global quote"
                [] op = "search_symbol" -> "Error searching symbols")
             \o ": " \o RequestError(r)

\* C6, as the code has it: a failed upstream call ends the operation, which
\* sends no further request and returns the error string of that failure
\* (or raises, if the callback does) -- except the calls whose failure the code
\* passes over (languages, jobs, document content), after which the operation
\* ends as it does when that call is answered with an empty document, and
\* except fetch_multiple_urls, which joins the results of its URLs.
C6_FailedCallAborts ==
    (Invoked /\ call.op # "fetch_multiple_urls") =>
        \A i \in 1..Len(reqs) :
            Failed(call.up[i]) =>
                IF Ignored(call.op, i)
                THEN LET spared == Handle(valves, call.op, call.args, call.cb,
                                          [call.up EXCEPT ![i] = Unread])
                     IN  /\ (pc = "raised") = (spared.pc = "exc")
                         /\ ret = spared.val
                ELSE /\ i = Len(reqs)
                     /\ pc = "returned" => ret = ErrorFor(call.op, call.up[i])
                     /\ pc = "raised" => Unreliable(call.cb)

\* get_workflow_run returned the run's summary although the jobs request
\* was answered with 500
C6_Witness ==
    /\ pc = "returned" /\ call.op = "get_workflow_run"
    /\ Len(reqs) = 2 /\ call.up[2].kind = "http" /\ call.up[2].code = 500
    /\ ret # ErrorFor(call.op, call.up[2])

\* C6, as the specification has it: if any upstream call made during an
\* operation fails, the operation returns only the error string, never output
\* built from the calls that succeeded.
C6_NoPartialResult ==
    (pc = "returned" /\ ~Unreliable(call.cb)) =>
        \A i \in 1..Len(reqs) :
            Failed(call.up[i]) => ret = ErrorFor(call.op, call.up[i])

\* C7, as the code has it: a GitHub request answered with a 4xx or 5xx status,
\* other than the languages and jobs requests, makes the operation return
\* "Error: " and the class of the status code (401, 404, 403, or "API error: c"
\* for any other c); read_file alone raises instead when the callback fails on
\* the error status event.
C7_ErrorClassified ==
    (Invoked /\ tool = "github") =>
        \A i \in 1..Len(reqs) :
            (call.up[i].kind = "http" /\ call.up[i].code \in 400..599
             /\ ~Ignored(call.op, i)) =>
                \/ pc = "returned" /\ ret = "Error: " \o GhClass(call.up[i].code)
                \/ /\ pc = "raised" /\ call.op = "read_file"
                   /\ Unreliable(call.cb) /\ valves.enable_status_updates

\* cancel_workflow_run answered with 422, a code of no class of its own
C7_Witness ==
    /\ pc = "returned" /\ call.op = "cancel_workflow_run"
    /\ Len(reqs) = 1 /\ call.up[1].code = 422
    /\ ret = "Error: API error: 422"

\* C7, as the specification has it: every non-2xx answer to a request of a
\* GitHub operation is surfaced as "Error: " and the class of its status code.
C7_EveryNon2xxClassified ==
    (pc = "returned" /\ tool = "github" /\ ~Unreliable(call.cb)) =>
        \A i \in 1..Len(reqs) :
            (call.up[i].kind = "http" /\ call.up[i].code \notin 200..299) =>
                ret = "Error: " \o GhClass(call.up[i].code)

----------------------------------------------------------------------------
(* The repository argument, over every string of the model *)

InitRepo == Init /\ tool = "github"

NextRepo ==
    \/ GhReadFile(Repos, {}, Callbacks)
    \/ GhListRepositoryFiles(Repos, {}, Callbacks)
    \/ GhGetRepositoryInfo(Repos, {}, Callbacks)
    \/ GhListWorkflowRuns(Repos, {}, Callbacks)
    \/ GhGetWorkflowRun(Repos, {}, Callbacks)
    \/ GhTriggerWorkflow(Repos, {}, {}, Callbacks)
    \/ GhListWorkflows(Repos, {}, Callbacks)
    \/ GhCancelWorkflowRun(Repos, {}, Callbacks)
    \/ Collect

SpecRepo == InitRepo /\ [][NextRepo]_vars

RepoOps ==
    {"read_file", "list_repository_files", "get_repository_info", "list_workflow_runs",
     "get_workflow_run", "trigger_workflow", "list_workflows", "cancel_workflow_run"}

\* the operation answers with its missing-token message before anything else
TokenFirst == TokenEmpty /\ TokenMessage(call.op) # ""

\* the callback fails on the status event the operation starts with
FailsAtStart ==
    valves.enable_status_updates /\ call.cb.present /\ call.cb.failFrom = 1

\* the parts of repo between its slashes that are not blank, in order
NamedParts(repo) ==
    LET parts == split(repo, <<"/">>)
    IN  SelectSeq([i \in 1..Len(parts) |-> strip(parts[i])], LAMBDA p : p # <<>>)

\* C8, as the code has it: the repo-splitting helper returns two components
\* exactly for the strings with two non-blank parts between their slashes (the
\* parts, stripped), whatever the number of slashes; an operation given any
\* other string sends no HTTP request and returns "Invalid repo format. Use
\* owner/repo" -- after its missing-token message, if it needs a token, and
\* unless the callback fails on the initial status event, which makes it raise.
C8_SplitRepo ==
    (Invoked /\ call.op \in RepoOps) =>
        LET repo == call.args.repo
            named == NamedParts(repo)
        IN  IF Len(named) = 2
            THEN /\ _split_repo(repo) = named
                 /\ ~(pc = "returned" /\ ret = "Invalid repo format. Use owner/repo")
                 /\ (~TokenFirst /\ ~FailsAtStart) => reqs # <<>>
            ELSE /\ _split_repo(repo) = <<>>
                 /\ reqs = <<>>
                 /\ IF TokenFirst THEN pc = "returned" /\ ret = TokenMessage(call.op)
                    ELSE IF FailsAtStart THEN pc = "raised"
                    ELSE pc = "returned" /\ ret = "Invalid repo format. Use owner/repo"

\* list_workflows sent its request for "o//o"
C8_Witness ==
    /\ pc = "returned" /\ call.op = "list_workflows"
    /\ call.args.repo = <<"o", "/", "/", "o">>
    /\ Len(reqs) = 1

\* exactly one slash, neither side empty or blank
OwnerRepoShape(repo) ==
    LET parts == split(repo, <<"/">>)
    IN  Len(parts) = 2 /\ strip(parts[1]) # <<>> /\ strip(parts[2]) # <<>>

\* C8, as the specification has it: the helper returns two non-empty
\* components for every string of the shape owner/repo; an operation given a
\* string of any other shape sends no HTTP request and returns "Invalid repo
\* format. Use owner/repo".
C8_OnlyOwnerRepoAccepted ==
    (pc = "returned" /\ call.op \in RepoOps /\ ~TokenFirst) =>
        IF OwnerRepoShape(call.args.repo)
        THEN Len(_split_repo(call.args.repo)) = 2
        ELSE reqs = <<>> /\ ret = "Invalid repo format. Use owner/repo"

----------------------------------------------------------------------------
(* The key=value lists, over every string of the model *)

InitFiles == Init /\ tool = "github"

NextFiles ==
    \/ GhCreateGist(FilesArgs, {}, Callbacks)
    \/ GhUpdateGist(FilesArgs, {}, Callbacks)
    \/ GhTriggerWorkflow({<<"o", "/", "o">>}, FilesArgs, {}, Callbacks)
    \/ Collect

SpecFiles == InitFiles /\ [][NextFiles]_vars

ListOps == {"create_gist", "update_gist", "trigger_workflow"}

\* the key=value list of the invocation
ListArg == IF call.op = "trigger_workflow" THEN call.args.inputs ELSE call.args.files

\* the segments of a list, as a set
Segments(list) ==
    LET parts == split(list, <<"|", "|", "|">>)
    IN  {parts[i] : i \in 1..Len(parts)}

LacksEquals(segment) == \A i \in 1..Len(segment) : segment[i] # "="

\* the lists an operation turns down: create_gist every list with a segment
\* lacking "=", update_gist those that are not empty, trigger_workflow those
\* whose segment is not blank either
Rejected(op, list) ==
    \E segment \in Segments(list) :
        /\ LacksEquals(segment)
        /\ op = "update_gist" => list # <<>>
        /\ op = "trigger_workflow" => strip(segment) # <<>>

\* what an operation answers a list it turns down with
RejectionMessages(op, list) ==
    IF op = "trigger_workflow"
    THEN {"Invalid workflow inputs: Invalid input format segment: '"
          \o Str(strip(segment)) \o "'" : segment \in Segments(list)}
    ELSE {"Invalid file format. Use: filename.ext=content|||filename2.ext=content2"}
         \cup (IF op = "create_gist" THEN {"Filename cannot be empty"} ELSE {})

ProvidedNames(files) ==
    LET parts == split(files, <<"|", "|", "|">>)
    IN  [i \in 1..Len(parts) |-> Str(strip(split1(parts[i], <<"=">>)[1]))]

\* C10: the filenames create_gist sends upstream in the file map are exactly
\* the filenames the caller provided, in order, none altered, merged or lost.
C10_FilenamesRoundTrip ==
    (Invoked /\ call.op = "create_gist" /\ reqs # <<>>) =>
        Keys(reqs[1].json.files) = ProvidedNames(call.args.files)

----------------------------------------------------------------------------
(* The label of a workflow status, over the statuses and conclusions of the model *)

\* longest status, in characters
MaxStatusLen == 3

StatusChars == {"a", "B", "_", " "}

\* what GitHub reports, and every short string of the model
Statuses ==
    SeqsUpTo(StatusChars, MaxStatusLen)
    \cup {<<"i", "n", "_", "p", "r", "o", "g", "r", "e", "s", "s">>,
          <<"c", "o", "m", "p", "l", "e", "t", "e", "d">>}

Conclusions ==
    SeqsUpTo({"a", "_", " "}, 2)
    \cup {<<"N", "/", "A">>, <<"f", "a", "i", "l", "u", "r", "e">>,
          <<"t", "i", "m", "e", "d", "_", "o", "u", "t">>}

\* self._format_workflow_status(status, conclusion); ret is the label, a
\* string of characters
FormatWorkflowStatus ==
    /\ Idle("github")
    /\ \E status \in Statuses, conclusion \in Conclusions :
          /\ call' = [op |-> "_format_workflow_status",
                      args |-> [status |-> status, conclusion |-> conclusion],
                      cb |-> NoCallback, up |-> <<>>]
          /\ ret' = _format_workflow_status(status, conclusion)
    /\ pc' = "returned"
    /\ UNCHANGED <<tool, valves, events, reqs>>

InitStatus == Init /\ tool = "github"

NextStatus == FormatWorkflowStatus \/ Collect

SpecStatus == InitStatus /\ [][NextStatus]_vars

\* x with its underscores replaced by spaces, without the blanks around it
Words(x) == strip(replace(x, "_", " "))

\* the status part of a label: first letter upper case, the others lower case
StatusPart(status) ==
    IF Words(status) = <<>> THEN <<"U", "n", "k", "n", "o", "w", "n">>
    ELSE capitalize(Words(status))

\* C11: status "in_progress" with no conclusion renders "In progress", status
\* "completed" with conclusion "failure" renders "Completed (failure)"; the
\* label is never empty; it is the status part (the status with underscores
\* replaced by spaces, capitalised; "Unknown" for a missing or blank status)
\* followed by " (c)" exactly when the conclusion is not empty, is not "N/A"
\* and has something besides underscores and blanks, c being the conclusion
\* with its underscores replaced by spaces and the blanks around it removed.
C11_StatusLabel ==
    (Invoked /\ call.op = "_format_workflow_status") =>
        LET status == call.args.status
            conclusion == call.args.conclusion
            shown == conclusion # <<>> /\ conclusion # <<"N", "/", "A">>
                     /\ Words(conclusion) # <<>>
        IN  /\ ret # <<>>
            /\ (status = <<"i", "n", "_", "p", "r", "o", "g", "r", "e", "s", "s">>
                /\ conclusion = <<>>) => Str(ret) = "In progress"
            /\ (status = <<"c", "o", "m", "p", "l", "e", "t", "e", "d">>
                /\ conclusion = <<"f", "a", "i", "l", "u", "r", "e">>)
                   => Str(ret) = "Completed (failure)"
            /\ shown => ret = StatusPart(status) \o <<" ", "(">> \o Words(conclusion) \o <<")">>
            /\ ~shown => ret = StatusPart(status)

\* a completed run that timed out is labelled "Completed (timed out)"
C11_Witness ==
    /\ pc = "returned" /\ call.op = "_format_workflow_status"
    /\ call.args.status = <<"c", "o", "m", "p", "l", "e", "t", "e", "d">>
    /\ call.args.conclusion = <<"t", "i", "m", "e", "d", "_", "o", "u", "t">>
    /\ Str(ret) = "Completed (timed out)"

\* conclusions GitHub reports for a run, and none for a run in progress
GitHubConclusions ==
    {<<>>, <<"f", "a", "i", "l", "u", "r", "e">>,
     <<"t", "i", "m", "e", "d", "_", "o", "u", "t">>}

\* C11, as the specification has it: the status part is followed by
\* " (conclusion)" exactly when a non-empty conclusion other than "N/A" is
\* present.  Stated for the conclusions GitHub reports.
C11_ConclusionAsReceived ==
    (Invoked /\ call.op = "_format_workflow_status"
     /\ call.args.conclusion \in GitHubConclusions) =>
        LET conclusion == call.args.conclusion
        IN  ret = StatusPart(call.args.status)
                  \o (IF conclusion # <<>> /\ conclusion # <<"N", "/", "A">>
                      THEN <<" ", "(">> \o conclusion \o <<")">> ELSE <<>>)

----------------------------------------------------------------------------
(* The truncation of a document's content, over the contents of the model *)

\* longest content, in characters
MaxContentLen == 5

\* a letter of one byte and a letter of two bytes in UTF-8
ContentChars == {"a", "<U+00E9>"}

Contents == SeqsUpTo(ContentChars, MaxContentLen)

\* the truncation step of the operations that include a document's content;
\* ret is the content included, a string of characters that ends with the
\* marker when the content was cut
Truncate ==
    /\ Idle("paperless")
    /\ \E content \in Contents :
          /\ call' = [op |-> "truncate", args |-> [content |-> content],
                      cb |-> NoCallback, up |-> <<>>]
          /\ ret' = truncated(content, valves)
    /\ pc' = "returned"
    /\ UNCHANGED <<tool, valves, events, reqs>>

InitContent == Init /\ tool = "paperless"

NextContent == Truncate \/ Collect

SpecContent == InitContent /\ [][NextContent]_vars

\* len(s.encode("utf-8"))
RECURSIVE ByteLen(_)
ByteLen(s) ==
    IF s = <<>> THEN 0
    ELSE (IF Head(s) = "<U+00E9>" THEN 2 ELSE 1) + ByteLen(Tail(s))

\* C12: content longer than max_document_size is cut to exactly
\* max_document_size bytes and followed by the marker "[Content
\* truncated...]"; content of at most max_document_size is included unchanged
\* and without the marker.
C12_TruncatedToBytes ==
    (Invoked /\ call.op = "truncate") =>
        LET content == call.args.content
            kept == SubSeq(ret, 1, Len(ret) - 1)
        IN  IF Len(content) > valves.max_document_size
            THEN /\ ret # <<>>
                 /\ ret[Len(ret)] = "\n\n[Content truncated...]"
                 /\ ByteLen(kept) = valves.max_document_size
            ELSE ret = content

----------------------------------------------------------------------------
(* The extraction strategies of the auto mode *)

\* fetch_url_content returned after it had a page to extract from, in auto mode
AutoExtracted ==
    /\ pc = "returned" /\ call.op = "fetch_url_content"
    /\ call.args.user.preferred_method = "auto"
    /\ reqs # <<>>
    /\ call.up[1].kind = "http" /\ call.up[1].body = "object"
    /\ LET content_length == call.up[1].data.content_length
       IN  content_length = <<>>
           \/ (int(content_length).ok /\ int(content_length).value <= max_content_length)

\* what a strategy makes of the page of the invocation
StrategyResult(strategy) ==
    LET page == call.up[1].data.page
        include_links == call.args.user.include_links
    IN  CASE strategy = "trafilatura" -> _extract_with_trafilatura(page, include_links)
          [] strategy = "readability" -> _extract_with_readability(page, include_links)
          [] strategy = "basic" -> _extract_basic(page, include_links)

\* the strategies the instance has, in the order of the auto mode
Available ==
    (IF valves.has_trafilatura THEN <<"trafilatura">> ELSE <<>>)
    \o (IF valves.has_readability THEN <<"readability">> ELSE <<>>)
    \o <<"basic">>

\* the header of the output names the title, the author and the date of x
HeaderOf(x) ==
    "# " \o (IF x.metadata.present THEN x.metadata.title ELSE "Web Content") \o "\n"
    \o "**Source:** " \o Str(call.args.url) \o "\n"
    \o (IF x.metadata.author # "" THEN "**Author:** " \o x.metadata.author \o "\n" ELSE "")
    \o (IF x.metadata.date # "" THEN "**Date:** " \o x.metadata.date \o "\n" ELSE "")
    \o "\n---\n\n"

\* the invocation returned the content of strategy with the metadata of the
\* same strategy, in the output and in every citation
ResultOf(strategy) ==
    LET x == StrategyResult(strategy)
    IN  /\ x.content # ""
        /\ ret = (IF call.args.user.show_metadata THEN HeaderOf(x) ELSE "") \o x.content
        /\ \A i \in 1..Len(events) :
              events[i].type = "citation" =>
                  events[i] = CitationEvent(x.content,
                                            IF x.metadata.present THEN x.metadata.title
                                            ELSE Str(call.args.url),
                                            Str(call.args.url))

NothingFound == ret = "Could not extract content from the page"

\* C13: in auto mode, when trafilatura and readability return empty or None
\* content (or are not installed), the result is the basic strategy's content
\* with the basic strategy's own metadata; in every case the title, author and
\* date of the output and of the citation come from the strategy that produced
\* the returned content.
C13_MetadataOfTheContent ==
    AutoExtracted =>
        /\ (\A i \in 1..(Len(Available) - 1) : StrategyResult(Available[i]).content = "")
               => (ResultOf("basic") \/ (NothingFound /\ StrategyResult("basic").content = ""))
        /\ ~NothingFound => \E i \in 1..Len(Available) : ResultOf(Available[i])

\* trafilatura and readability read a title but no content: the caller is
\* shown the basic strategy's content under the basic strategy's title
C13_Witness ==
    /\ AutoExtracted /\ Available = <<"trafilatura", "readability", "basic">>
    /\ StrategyResult("trafilatura").content = ""
    /\ StrategyResult("trafilatura").metadata.title = "T"
    /\ StrategyResult("readability").content = ""
    /\ StrategyResult("readability").metadata.title = "R"
    /\ ResultOf("basic") /\ StrategyResult("basic").metadata.title = "B"
    /\ call.args.user.show_metadata
    /\ \E i \in 1..Len(events) : events[i].type = "citation"

\* the place in Available of the first strategy with content, or of basic
FirstWithContent ==
    LET hits == {i \in 1..Len(Available) : StrategyResult(Available[i]).content # ""}
    IN  IF hits = {} THEN Len(Available)
        ELSE CHOOSE i \in hits : \A j \in hits : i <= j

\* C14: in auto mode the strategies are tried in the order trafilatura,
\* readability, basic, those not installed being skipped; the first that
\* yields non-empty content determines the result and no later strategy is
\* invoked after it.
C14_FirstNonEmptyWins ==
    AutoExtracted =>
        LET auto == auto_extract(valves, call.up[1].data.page, call.args.user.include_links)
        IN  /\ auto.tried = SubSeq(Available, 1, FirstWithContent)
            /\ IF StrategyResult(Available[FirstWithContent]).content = "" THEN NothingFound
               ELSE ResultOf(Available[FirstWithContent])

\* all three strategies have content: trafilatura alone was invoked
C14_Witness ==
    /\ AutoExtracted /\ Available = <<"trafilatura", "readability", "basic">>
    /\ \A i \in 1..3 : StrategyResult(Available[i]).content # ""
    /\ ResultOf("trafilatura")
    /\ auto_extract(valves, call.up[1].data.page, call.args.user.include_links).tried
           = <<"trafilatura">>

----------------------------------------------------------------------------
(* The order of the fetches of fetch_multiple_urls *)

\* the URLs of the invocation, as fetch_multiple_urls lists them
UrlList == SelectNonBlank(split(call.args.urls, <<",">>))

\* the status event that announces the i-th URL
Processing(i) ==
    StatusEvent("Processing URL " \o ToString(i) \o "/" \o ToString(Len(UrlList)) \o ": "
                \o Str(UrlList[i]), FALSE, FALSE)

\* the URLs announced when the k-th request was sent
Announced(k) ==
    {i \in 1..Len(UrlList) : \E e \in 1..reqs[k].after : events[e] = Processing(i)}

\* the callback is given the status events
Reporting == valves.enable_status_updates /\ call.cb.present

\* C15: fetch_multiple_urls processes the URLs one after another in input
\* order: the requests it sent are for URLs of the list in the order of the
\* list, and, with status updates, when the request for the i-th URL was sent
\* the callback had been told "Processing URL j/n" for exactly the URLs up to
\* the i-th; a run that returned with a callback that never fails announced
\* every URL, in order.
C15_OneAfterAnother ==
    (Invoked /\ call.op = "fetch_multiple_urls") =>
        /\ \E f \in [1..Len(reqs) -> 1..Len(UrlList)] :
              /\ \A k \in 1..Len(reqs) : reqs[k].url = Str(UrlList[f[k]])
              /\ \A k, l \in 1..Len(reqs) : k < l => f[k] < f[l]
              /\ Reporting => \A k \in 1..Len(reqs) : Announced(k) = 1..f[k]
        /\ (Reporting /\ pc = "returned" /\ UrlList # <<>>) =>
              \E at \in [1..Len(UrlList) -> 1..Len(events)] :
                  /\ \A i \in 1..Len(UrlList) : events[at[i]] = Processing(i)
                  /\ \A i, j \in 1..Len(UrlList) : i < j => at[i] < at[j]

\* two URLs were fetched, the second after the first was reported done
C15_Witness ==
    /\ pc = "returned" /\ call.op = "fetch_multiple_urls" /\ Reporting
    /\ Len(UrlList) = 2 /\ Len(reqs) = 2
    /\ reqs[1].url = "http://a" /\ reqs[2].url = "http://b"
    /\ Announced(1) = {1} /\ Announced(2) = {1, 2}
    /\ reqs[2].after > reqs[1].after + 1

----------------------------------------------------------------------------
(* The caller's preferences *)

\* __user__ without "valves": the operation constructs UserValves() itself
NoPreferences ==
    CASE tool = "github" -> [cls |-> "absent", show_line_numbers |-> FALSE,
                             syntax_highlighting |-> FALSE]
      [] tool = "paperless" -> [PlUserValves(TRUE, 5, TRUE) EXCEPT !.cls = "absent"]
      [] tool = "web" -> [WebUserValves("auto", TRUE, TRUE) EXCEPT !.cls = "absent"]

\* C16: in every operation that reads user preferences, when the preference
\* object the caller supplies is not a UserValves instance the operation
\* proceeds with the default UserValves values: it does what it does for a
\* caller that supplies none.
C16_WrongShapeDefaults ==
    (Invoked /\ "user" \in DOMAIN call.args
     /\ call.args.user.cls \notin {"UserValves", "absent"}) =>
        LET defaults == Handle(valves, call.op, [call.args EXCEPT !.user = NoPreferences],
                               call.cb, call.up)
        IN  /\ (pc = "raised") = (defaults.pc = "exc")
            /\ ret = defaults.val
            /\ events = defaults.events
            /\ reqs = defaults.reqs

----------------------------------------------------------------------------
(* The result counts requested upstream *)

\* the value of the parameter key of a request, "" when it has none
Param(request, key) ==
    LET at == {i \in 1..Len(request.params) : request.params[i][1] = key}
    IN  IF at = {} THEN "" ELSE request.params[CHOOSE i \in at : TRUE][2]

\* C17: every Paperless document query sends a page_size in 1..25, whatever
\* the user's max_results; list_my_gists and list_workflow_runs send a
\* per_page of at most 100, whatever the limit.
C17_ResultCountClamped ==
    Invoked =>
        \A k \in 1..Len(reqs) :
            /\ (tool = "paperless"
                /\ reqs[k].url = valves.paperless_url \o "/api/documents/") =>
                   Param(reqs[k], "page_size") \in {ToString(n) : n \in 1..25}
            /\ (tool = "github" /\ call.op \in {"list_my_gists", "list_workflow_runs"}) =>
                   Param(reqs[k], "per_page") \in {ToString(n) : n \in -1000..100}

----------------------------------------------------------------------------
(* The size labels, over sizes up to the TB range *)

\* most base-1024 digits of a size
MaxSizeDigits == 6

\* digits at the ends of the range, at the ties of the rounding (a quarter,
\* a half, three quarters) and on both sides of 0.95
DigitSamples == {0, 1, 256, 512, 768, 972, 973, 1023}

\* the sizes of the model: two leading digits from the samples, the digits
\* below them 0 or 1023
Sizes ==
    {<<d>> : d \in DigitSamples}
    \cup {<<d, e>> \o low : d \in DigitSamples \ {0}, e \in DigitSamples,
                            low \in SeqsUpTo({0, 1023}, MaxSizeDigits - 2)}

\* self._format_size(size)
FormatSize ==
    /\ Idle("github")
    /\ \E size \in Sizes :
          /\ call' = [op |-> "_format_size", args |-> [size |-> size],
                      cb |-> NoCallback, up |-> <<>>]
          /\ ret' = format_size_digits(size)
    /\ pc' = "returned"
    /\ UNCHANGED <<tool, valves, events, reqs>>

InitSize == Init /\ tool = "github"

NextSize == FormatSize \/ Collect

SpecSize == InitSize /\ [][NextSize]_vars

\* the number of the unit of the size label: 0 for B .. 4 for TB
UnitOf(size) == IF Len(size) > 4 THEN 4 ELSE Len(size) - 1

UnitName(k) == <<"B", "KB", "MB", "GB", "TB">>[k + 1]

\* C18: for every non-negative size the label is a number with one decimal
\* place and a unit of B, KB, MB, GB, TB; the unit boundary is exactly 1024:
\* sizes 0..1023 are in B, 1024 is "1.0 KB", and each further unit starts at
\* the next power of 1024.  The number is the size in that unit rounded to one
\* decimal place, so it is within 0.05 of the size and, for every unit except
\* TB, at most 1024.0: the sizes less than 0.05 of a unit below the next unit
\* are labelled 1024.0.
C18_SizeLabel ==
    (Invoked /\ call.op = "_format_size") =>
        LET size == call.args.size
            k == UnitOf(size)
            units == ValueOf(SubSeq(size, 1, Len(size) - k))
            next == IF k = 0 THEN 0 ELSE size[Len(size) - k + 1]
        IN  /\ size = <<1, 0>> => ret = "1.0 KB"
            /\ k = 0 => ret = ToString(size[1]) \o ".0 B"
            /\ \E whole \in {units, units + 1}, tenth \in 0..9 :
                  /\ ret = ToString(whole) \o "." \o ToString(tenth) \o " " \o UnitName(k)
                  \* 20 * 1024 * |whole.tenth - size in units| <= 1024
                  /\ 2048 * (10 * (whole - units) + tenth) >= 20 * next - 1024
                  /\ 2048 * (10 * (whole - units) + tenth) <= 20 * (next + 1) + 1024
                  /\ k < 4 => (whole < 1024 \/ (whole = 1024 /\ tenth = 0))
                  /\ (k < 4 /\ whole = 1024) => (units = 1023 /\ next >= 972)

\* 1048525 bytes, 51 short of 1 MB, are labelled in KB
C18_Witness ==
    /\ pc = "returned" /\ call.op = "_format_size"
    /\ call.args.size = <<1023, 973>>
    /\ ret = "1024.0 KB"

\* C18, as the specification has it: the numeric part is below 1024 for every
\* unit except TB.
C18_NumericPartBelow1024 ==
    (Invoked /\ call.op = "_format_size" /\ UnitOf(call.args.size) < 4) =>
        ret # "1024.0 " \o UnitName(UnitOf(call.args.size))

----------------------------------------------------------------------------
(* The listings, over every order upstream may return their items in *)

InitListings == Init /\ tool \in {"github", "paperless"}

NextListings ==
    \/ GhListRepositoryFiles({<<"o", "/", "o">>}, ShuffledListings, Callbacks)
    \/ PlListAllTags(Callbacks)
    \/ PlListCorrespondents(Callbacks)
    \/ Collect

SpecListings == InitListings /\ [][NextListings]_vars

\* the operation rendered a listing of the items upstream answered with: it
\* returned, and its callback did not fail
Listed(op, key) ==
    /\ pc = "returned" /\ call.op = op /\ Len(reqs) = 1
    /\ ~Unreliable(call.cb)
    /\ call.up[1].kind = "http" /\ call.up[1].code = 200 /\ call.up[1].body = "object"
    /\ key \in DOMAIN call.up[1].data
    /\ "type" \notin DOMAIN call.up[1].data
    /\ call.up[1].data[key] # <<>>

\* the orders of the members of S, each once
Orderings(S) ==
    {order \in [1..Cardinality(S) -> S] :
        \A i, j \in 1..Cardinality(S) : i # j => order[i] # order[j]}

\* the tags or correspondents upstream answered with
Ranked == call.up[1].data.results

\* the lines of a listing of tags or correspondents, in an order
RankedLines(order) ==
    Concat([i \in 1..Len(order) |->
               LET item == Ranked[order[i]]
               IN  "- **" \o Str(item.name) \o "** (ID: " \o ToString(item.id) \o ")"
                   \o " - " \o ToString(item.document_count) \o " document"
                   \o (IF item.document_count # 1 THEN "s" ELSE "")
                   \o (IF call.op = "list_all_tags" /\ item.color # ""
                       THEN " - Color: " \o item.color ELSE "")
                   \o "\n"])

\* by document count descending and, among equal counts, by name ascending
\* without regard to case
CountThenName(order) ==
    \A i, j \in 1..Len(order) :
        i < j =>
            LET x == Ranked[order[i]]
                y == Ranked[order[j]]
            IN  \/ x.document_count > y.document_count
                \/ /\ x.document_count = y.document_count
                   /\ ~str_lt(lower(y.name), lower(x.name))

\* the entries of the directory upstream answered with
Listing == call.up[1].data.items

OfType(type) == {i \in 1..Len(Listing) : Listing[i].type = type}

\* by name ascending, in the order of the code points
NameAscending(order) ==
    \A i, j \in 1..Len(order) :
        i < j => ~str_lt(Listing[order[j]].name, Listing[order[i]].name)

DirLines(order) ==
    Concat([i \in 1..Len(order) |-> "- **" \o Str(Listing[order[i]].name) \o "/**\n"])

FileLines(order) ==
    Concat([i \in 1..Len(order) |->
               "- '" \o Str(Listing[order[i]].name) \o "' ("
               \o _format_size(Listing[order[i]].size) \o ")\n"])

\* C19: whatever order upstream returns, list_all_tags and list_correspondents
\* list every entry once, by document count descending and, among equal
\* counts, by name ascending case-insensitively; list_repository_files lists
\* every entry of type dir once, by name ascending, before every entry of type
\* file once, by name ascending.
C19_ListingsSorted ==
    /\ \A op \in {"list_all_tags", "list_correspondents"} :
          Listed(op, "results") =>
              \E order \in Orderings(1..Len(Ranked)) :
                  /\ CountThenName(order)
                  /\ ret = "# Available "
                           \o (IF op = "list_all_tags" THEN "Tags" ELSE "Correspondents")
                           \o " (" \o ToString(Len(Ranked)) \o " total)\n\n"
                           \o RankedLines(order)
    /\ Listed("list_repository_files", "items") =>
          \E dirs \in Orderings(OfType("dir")), files \in Orderings(OfType("file")) :
              /\ NameAscending(dirs) /\ NameAscending(files)
              /\ ret = "# Contents: " \o Str(call.args.repo) \o "/"
                       \o (IF call.args.path # "" THEN call.args.path ELSE "root") \o "\n\n"
                       \o (IF call.args.branch # ""
                           THEN "**Branch:** " \o call.args.branch \o "\n\n" ELSE "")
                       \o (IF dirs # <<>> THEN "## Directories\n\n" \o DirLines(dirs) \o "\n"
                           ELSE "")
                       \o (IF files # <<>> THEN "## Files\n\n" \o FileLines(files) ELSE "")
                       \o (IF dirs = <<>> /\ files = <<>> THEN "*Empty directory*\n" ELSE "")

\* upstream listed "Invoice" before "bank", both of nine documents, and the
\* tags of one document first: "bank" is listed first
C19_Witness ==
    /\ Listed("list_all_tags", "results") /\ Len(Ranked) = 4
    /\ Ranked[1].document_count = 1
    /\ Ranked[2].name = <<"I", "n", "v", "o", "i", "c", "e">>
    /\ Ranked[3].name = <<"b", "a", "n", "k">>
    /\ \E order \in Orderings(1..4) :
          /\ order[1] = 3 /\ order[2] = 2
          /\ ret = "# Available Tags (4 total)\n\n" \o RankedLines(order)

----------------------------------------------------------------------------
(* The citation of an output document *)

\* the operations that produce a single output document and cite it
CitingOps == {"read_file", "get_gist", "get_document_by_id", "fetch_url_content"}

\* the callback raised during the invocation
CallbackFailed == call.cb.failFrom # 0 /\ Len(events) >= call.cb.failFrom

\* what a strategy can make of a page
Extractable ==
    UNION {{_extract_with_trafilatura(page, include_links),
            _extract_with_readability(page, include_links),
            _extract_basic(page, include_links)} :
           page \in Pages \cup {EmptyPage}, include_links \in BOOLEAN}

\* C20: whenever read_file, get_gist or get_document_by_id emits a citation,
\* the citation's document text is the string the operation returns; the
\* citation of fetch_url_content holds the extracted content, and the string
\* returned is that content, preceded by the header of title, source, author
\* and date when the user's show_metadata is on.  When the callback raises at
\* the citation or after it, the operation raises or returns the error string
\* of that failure instead.
C20_CitationMirrorsResult ==
    (Invoked /\ call.op \in CitingOps) =>
        \A i \in 1..Len(events) :
            events[i].type = "citation" =>
                LET document == events[i].description
                IN  IF CallbackFailed
                    THEN \/ pc = "raised"
                         \/ /\ call.op \in {"read_file", "get_gist"}
                            /\ ret = "Error: callback failed"
                         \/ /\ call.op = "get_document_by_id"
                            /\ ret = "Error retrieving document #"
                                     \o ToString(call.args.document_id)
                                     \o ": callback failed"
                    ELSE /\ pc = "returned"
                         /\ IF call.op = "fetch_url_content" /\ call.args.user.show_metadata
                            THEN \E x \in Extractable : ret = HeaderOf(x) \o document
                            ELSE ret = document

\* fetch_url_content cited the content alone and returned it under its header
C20_Witness ==
    /\ pc = "returned" /\ call.op = "fetch_url_content" /\ ~CallbackFailed
    /\ call.args.user.show_metadata
    /\ \E i \in 1..Len(events) :
          /\ events[i].type = "citation"
          /\ events[i].description = "Read [more](http://b)"
          /\ ret = "# T\n**Source:** http://a\n**Author:** A\n**Date:** 2024\n\n---\n\n"
                   \o events[i].description

\* C20, as the specification has it: the citation's document text equals the
\* string the operation returns.  Stated for the callers whose callback never
\* fails.
C20_CitationEqualsResult ==
    (Invoked /\ call.op \in CitingOps /\ ~Unreliable(call.cb)) =>
        \A i \in 1..Len(events) :
            events[i].type = "citation" =>
                (pc = "returned" /\ ret = events[i].description)

----------------------------------------------------------------------------
(* The timeout of a request *)

\* C21: every HTTP request a tool sends carries a timeout (the timeout
\* argument of requests is a positive number of seconds; 0 stands for a
\* request sent without one, which waits for the upstream without limit)
C21_EveryRequestTimed ==
    \A i \in 1..Len(reqs) : reqs[i].timeout > 0

----------------------------------------------------------------------------
(* Two invocations interleaved on one instance *)

\* The handlers are coroutines: one that awaits the callback may be suspended
\* there while another invocation on the same instance runs.  In this
\* specification call holds the instance as constructed and the two
\* invocations; pc, ret and events hold, for each of the two, its position,
\* its result and the events its callback has received.

\* an instance on which a handler left something behind
instance_after_written(v) == CHOOSE w \in ValvesOf(tool) : w # v

\* self after a handler ran up to an await: no handler assigns to self.valves,
\* self.base_url or the has_* flags, which only __init__ writes
instance_after(v) == v

Invocation(op, args, cb, up) == [op |-> op, args |-> args, cb |-> cb, up |-> up]

\* the callbacks of the interleaved invocations
TwoCallbacks == {NoCallback, [present |-> TRUE, failFrom |-> 0],
                 [present |-> TRUE, failFrom |-> MaxFailFrom]}

GhInvocations ==
    {Invocation("read_file",
                [repo |-> <<"o", "/", "o">>, file_path |-> <<"src/main", "py">>,
                 branch |-> "", user |-> GhUserValves(FALSE, FALSE)], cb, <<r>>) :
        cb \in TwoCallbacks,
        r \in {Http(200, "object", FileData("file", 12, "utf8", <<"x = 1", "y = 2", "">>)),
               ConnectionError}}
    \cup {Invocation("delete_gist", [gist_id |-> "g1"], cb, <<Http(204, "nobody", NoData)>>) :
            cb \in TwoCallbacks}

PlInvocations ==
    {Invocation("get_document_by_id", [document_id |-> 7, user |-> user], cb, <<r, r>>) :
        user \in {u \in PlUsers : u.cls \in {"absent", "dict"}}, cb \in TwoCallbacks,
        r \in {Http(200, "object", Document(7, "Tax", <<"a", "b">>))}}
    \cup {Invocation("list_all_tags", [none |-> TRUE], cb, <<ConnectionError>>) :
            cb \in TwoCallbacks}

WebInvocations ==
    {Invocation("fetch_url_content", [url |-> <<"h", "t", "t", "p", ":", "/", "/", "a">>,
                                      user |-> user], cb, <<r>>) :
        user \in {u \in WebUsers : u.cls = "absent"}, cb \in TwoCallbacks,
        r \in {WebPage(<<>>, p) : p \in Pages}}
    \cup {Invocation("fetch_multiple_urls",
                     [urls |-> <<"h", "t", "t", "p", ":", "/", "/", "a", ",",
                                 "h", "t", "t", "p", ":", "/", "/", "b">>,
                      user |-> user], cb, <<WebPage(<<>>, EmptyPage), Timeout>>) :
            user \in {u \in WebUsers : u.cls = "absent"}, cb \in TwoCallbacks \ {NoCallback}}

AvInvocations ==
    {Invocation("get_global_quote", [symbol |-> "IBM"], cb, <<r>>) :
        cb \in TwoCallbacks,
        r \in {Http(200, "object", [members |-> <<<<"Global Quote", "189.84">>>>]),
               Http(500, "notjson", NoData)}}
    \cup {Invocation("search_symbol", [keywords |-> "ibm"], cb, <<Http(200, "empty", NoData)>>) :
            cb \in TwoCallbacks}

Tasks == {1, 2}

InitTwo ==
    /\ tool \in Tools
    /\ valves \in ValvesOf(tool)
    /\ call = NoCall
    /\ pc = <<"idle", "idle">>
    /\ ret = <<"", "">>
    /\ events = <<<<>>, <<>>>>
    /\ reqs = <<>>

\* the host starts two invocations on the instance
Both(t, INVOCATIONS) ==
    /\ tool = t /\ call = NoCall
    /\ \E first \in INVOCATIONS, second \in INVOCATIONS :
          call' = [instance |-> valves, tasks |-> <<first, second>>]
    /\ pc' = <<"running", "running">>
    /\ UNCHANGED <<tool, valves, ret, events, reqs>>

GhBoth == Both("github", GhInvocations)

PlBoth == Both("paperless", PlInvocations)

WebBoth == Both("web", WebInvocations)

AvBoth == Both("alphavantage", AvInvocations)

\* what the handler of task t does, read from the instance as it is now
RunOf(t) ==
    LET i == call.tasks[t]
    IN  Handle(valves, i.op, i.args, i.cb, i.up)

\* task t runs to its next await: its callback receives the next event
Resume(t) ==
    /\ call # NoCall /\ pc[t] = "running"
    /\ Bind(RunOf(t), LAMBDA run :
          LET done == Len(events[t])
          IN  /\ done < Len(run.events)
              /\ events' = [events EXCEPT ![t] = Append(@, run.events[done + 1])])
    /\ valves' = instance_after(valves)
    /\ UNCHANGED <<tool, call, pc, ret, reqs>>

\* task t runs to its end: reqs takes the requests it sent
Finish(t) ==
    /\ call # NoCall /\ pc[t] = "running"
    /\ Bind(RunOf(t), LAMBDA run :
          /\ Len(events[t]) = Len(run.events)
          /\ pc' = [pc EXCEPT ![t] = IF run.pc = "exc" THEN "raised" ELSE "returned"]
          /\ ret' = [ret EXCEPT ![t] = run.val]
          /\ reqs' = reqs \o run.reqs)
    /\ valves' = instance_after(valves)
    /\ UNCHANGED <<tool, call, events>>

\* the host has both results
CollectBoth ==
    /\ call # NoCall /\ \A t \in Tasks : pc[t] # "running"
    /\ call' = NoCall
    /\ pc' = <<"idle", "idle">>
    /\ ret' = <<"", "">>
    /\ events' = <<<<>>, <<>>>>
    /\ reqs' = <<>>
    /\ UNCHANGED <<tool, valves>>

NextTwo ==
    \/ GhBoth
    \/ PlBoth
    \/ WebBoth
    \/ AvBoth
    \/ \E t \in Tasks : Resume(t)
    \/ \E t \in Tasks : Finish(t)
    \/ CollectBoth

SpecTwo == InitTwo /\ [][NextTwo]_vars

\* task t run alone on the instance as constructed
Alone(t) ==
    LET i == call.tasks[t]
    IN  Handle(call.instance, i.op, i.args, i.cb, i.up)

----------------------------------------------------------------------------
(* The result of an Alpha Vantage operation *)

AvOps == {"get_daily_time_series", "get_intraday_series", "get_global_quote",
          "search_symbol"}

\* requests.get returned a response with a 2xx status and a JSON body
Answered(r) == r.kind = "http" /\ ~raise_for_status(r) /\ has_json(r)

\* the JSON value of a response: its members, or the scalar
Payload(r) == IF r.body = "scalar" THEN <<"scalar">> ELSE Get(r, "members", <<>>)

\* the words with which the error string of an operation begins
ErrorNaming(op) ==
    CASE op = "get_daily_time_series" -> "Error fetching daily time series data"
      [] op = "get_intraday_series" -> "Error fetching intraday data"
      [] op = "get_global_quote" -> "Error fetching global quote"
      [] op = "search_symbol" -> "Error searching symbols"

----------------------------------------------------------------------------
(* The files read_file renders *)

\* read_file asked for the file and the upstream answered with a JSON
\* container
EntryReceived ==
    /\ Invoked /\ call.op = "read_file" /\ reqs # <<>>
    /\ call.up[1].kind = "http" /\ ~raise_for_status(call.up[1])
    /\ call.up[1].body \in {"object", "empty"}

Cited == \E i \in 1..Len(events) : events[i].type = "citation"

\* C24: read_file returns the rendered file, and cites it when it has a
\* callback, only for an entry of type "file" of at most max_file_size bytes
\* whose content is not empty and decodes; for an entry that is no file, is
\* too large, is empty or is binary it returns the string that says so, and
\* for content that is no base64 the error string, without raising and without
\* a citation.  Stated for the invocations whose callback does not raise.
C24_RenderedOrRefused ==
    (EntryReceived /\ ~CallbackFailed) =>
        LET entry == call.up[1]
            type == Get(entry, "type", "")
            size == Get(entry, "size", 0)
            encoded == Get(entry, "encoded", "")
            file_path == join(".", call.args.file_path)
            user_valves == gh_user_valves(call.args.user)
            ext == call.args.file_path[Len(call.args.file_path)]
        IN  /\ pc = "returned"
            /\ IF type # "file"
               THEN ~Cited /\ ret = file_path \o " is not a file"
               ELSE IF size > max_file_size
               THEN ~Cited /\ ret = "File too large: " \o ToString(size) \o " bytes"
               ELSE IF encoded = ""
               THEN ~Cited /\ ret = "File content is empty"
               ELSE IF encoded = "binary"
               THEN ~Cited /\ ret = "Binary file (" \o ToString(size) \o " bytes)"
               ELSE IF encoded = "badpadding"
               THEN ~Cited /\ ret = "Error: Incorrect padding"
               ELSE /\ Cited = call.cb.present
                    /\ ret = "# " \o entry.data.name \o "\n\n"
                             \o "**Repository:** " \o Str(call.args.repo) \o "\n"
                             \o "**Path:** '" \o file_path \o "'\n"
                             \o (IF call.args.branch # ""
                                 THEN "**Branch:** " \o call.args.branch \o "\n" ELSE "")
                             \o "**Size:** " \o ToString(size) \o " bytes\n\n---\n\n"
                             \o _render_code_block(entry.data.lines, _detect_language(ext),
                                                   user_valves.show_line_numbers,
                                                   user_valves.syntax_highlighting)

\* read_file refused a file larger than max_file_size, with a callback that
\* would have received the citation
C24_Witness ==
    /\ EntryReceived /\ call.cb.present /\ ~CallbackFailed
    /\ Get(call.up[1], "type", "") = "file"
    /\ Get(call.up[1], "size", 0) > max_file_size
    /\ ret = "File too large: 100001 bytes"
    /\ ~Cited

----------------------------------------------------------------------------
(* The writes the upstream accepted *)

WriteOps == {"trigger_workflow", "cancel_workflow_run", "delete_gist"}

\* the upstream answered the write request with a 2xx status
Accepted ==
    /\ Invoked /\ call.op \in WriteOps /\ reqs # <<>>
    /\ call.up[1].kind = "http" /\ call.up[1].code >= 200 /\ call.up[1].code < 300

\* C25: a write request the upstream accepts with a 2xx status is reported
\* as a success, whatever the body of the response: no error string is
\* returned.  Stated for the invocations whose callback does not raise.
C25_AcceptedWriteSucceeds ==
    (Accepted /\ ~CallbackFailed) =>
        /\ pc = "returned"
        /\ ret = CASE call.op = "trigger_workflow" ->
                        "# Workflow Triggered Successfully!\n\n"
                        \o "**Repository:** " \o Str(call.args.repo) \o "\n"
                        \o "**Workflow:** " \o call.args.workflow_id \o "\n"
                        \o "**Ref:** " \o call.args.ref \o "\n"
                        \o (IF call.args.inputs # <<>> THEN "**Inputs:** Provided\n" ELSE "")
                        \o "\n**Note:** The workflow run has been queued. "
                        \o "Use 'list_workflow_runs' to check its status.\n"
                   [] call.op = "cancel_workflow_run" ->
                        "Workflow run #" \o ToString(call.args.run_id)
                        \o " has been cancelled successfully"
                   [] call.op = "delete_gist" ->
                        "Gist " \o call.args.gist_id \o " deleted successfully"

----------------------------------------------------------------------------
(* The status events of an Alpha Vantage operation *)

\* C26: an Alpha Vantage operation whose callback does not raise gives it two
\* status events: the first "in_progress" with done false, the second
\* "success" or "error" with done true, "success" exactly when the operation
\* returns the JSON payload
C26_ProgressThenTerminal ==
    (Invoked /\ call.op \in AvOps /\ call.cb.present /\ ~CallbackFailed) =>
        /\ Len(events) = 2
        /\ \A i \in 1..Len(events) :
              /\ events[i].type = "status"
              /\ events[i].done = (events[i].status \in {"success", "error"})
        /\ events[1].status = "in_progress" /\ ~events[1].done
        /\ events[2].status \in {"success", "error"} /\ events[2].done
        /\ (events[2].status = "success")
              = (pc = "returned" /\ Answered(call.up[1]) /\ ret = dumps(call.up[1]))
        /\ (events[2].status = "error")
              = (pc = "returned" /\ ~Answered(call.up[1])
                 /\ ret = events[2].description)

\* search_symbol reported its progress and then the error it returned
C26_Witness ==
    /\ pc = "returned" /\ call.op = "search_symbol" /\ call.cb.present /\ ~CallbackFailed
    /\ Len(events) = 2
    /\ events[1].status = "in_progress" /\ events[2].status = "error"
    /\ ret = "Error searching symbols: 500 Error for url"

----------------------------------------------------------------------------
(* The enable_status_updates setting *)

\* the same invocation on an instance with the other enable_status_updates
OtherSetting ==
    Handle([valves EXCEPT !.enable_status_updates = ~@],
           call.op, call.args, call.cb, call.up)

\* what a request carries to the upstream
Sent(request) ==
    [method |-> request.method, url |-> request.url, params |-> request.params,
     json |-> request.json, authorization |-> request.authorization,
     timeout |-> request.timeout]

Citations(evs) == SelectSeq(evs, LAMBDA e : e.type = "citation")

Statuses_of(evs) == SelectSeq(evs, LAMBDA e : e.type = "status")

\* C27: in the GitHub, Paperless and web tools an operation run with
\* enable_status_updates false emits no status event, on any path; it emits
\* the citations, returns the string (or raises the exception) and sends the
\* requests of the same invocation run with the setting true.  Stated for the
\* callers whose callback never fails.
C27_StatusUpdatesOnlyWhenEnabled ==
    (Invoked /\ tool \in {"github", "paperless", "web"} /\ ~Unreliable(call.cb)) =>
        /\ ~valves.enable_status_updates => Statuses_of(events) = <<>>
        /\ Bind(OtherSetting, LAMBDA other :
              /\ Citations(other.events) = Citations(events)
              /\ other.val = ret
              /\ (other.pc = "exc") = (pc = "raised")
              /\ [i \in 1..Len(other.reqs) |-> Sent(other.reqs[i])]
                    = [i \in 1..Len(reqs) |-> Sent(reqs[i])])

\* get_document_by_id, run without status updates, cited the document and
\* failed nowhere; with status updates it reports its progress as well
C27_Witness ==
    /\ pc = "returned" /\ call.op = "get_document_by_id"
    /\ ~valves.enable_status_updates /\ call.cb.present /\ ~Unreliable(call.cb)
    /\ Len(events) = 1 /\ events[1].type = "citation"
    /\ Statuses_of(OtherSetting.events) # <<>>

----------------------------------------------------------------------------
(* The tags search_by_tags queries for *)

\* the tags arguments: names in another case, IDs, an ID with a leading
\* zero, an unknown name first and last, no entry at all
TagLists ==
    {<<"t", "a", "x">>, <<"5", ",", " ", "T", "A", "X">>,
     <<"b", "a", "n", "k", ",", "t", "a", "x">>, <<"t", "a", "x", ",", "0", "7">>,
     <<"t", "o", "x", ",", "t", "a", "x">>, <<"5", ",", "t", "o", "x">>,
     <<" ", ",", " ">>}

PlSearchByTagsIn(TAGS, CBS) ==
    /\ Idle("paperless")
    /\ \E tags \in TAGS, match_all \in BOOLEAN, cb \in CBS,
          r1 \in TagsResponses \cup ShuffledTags \cup {ConnectionError, Unread},
          r2 \in DocsResponses \cup {ConnectionError, Unread} :
          LET args == [tags |-> tags, match_all |-> match_all,
                       user |-> PlUserValves(FALSE, 30, FALSE)]
          IN  Invoke("search_by_tags", args, cb, <<r1, r2>>,
                     search_by_tags(valves, args, cb, <<r1, r2>>))

InitTags == Init /\ tool = "paperless"

NextTags ==
    \/ PlSearchByTagsIn(TagLists, {NoCallback, [present |-> TRUE, failFrom |-> 0]})
    \/ Collect

SpecTags == InitTags /\ [][NextTags]_vars

\* the entries of the tags argument
TagEntries == SelectNonBlank(split(call.args.tags, <<",">>))

\* the ID an entry stands for, given the tags the upstream listed; "" when
\* it stands for none
TagIdOf(entry, known) ==
    LET named == {i \in 1..Len(known) : lower(known[i].name) = lower(entry)}
    IN  IF \A i \in 1..Len(entry) : entry[i] \in DigitChars THEN Str(entry)
        ELSE IF named = {} THEN ""
        ELSE ToString(known[CHOOSE i \in named : \A j \in named : i <= j].id)

\* search_by_tags asked for the tags and the upstream listed them
TagsListed ==
    /\ Invoked /\ call.op = "search_by_tags" /\ reqs # <<>>
    /\ call.up[1].kind = "http" /\ ~raise_for_status(call.up[1])
    /\ call.up[1].body \in {"object", "empty"}

\* the requests that query documents
DocumentQueries ==
    {i \in 1..Len(reqs) : reqs[i].url = valves.paperless_url \o "/api/documents/"}

----------------------------------------------------------------------------
(* The size of the page fetched *)

\* fetch_url_content received a response with a body of more than
\* max_content_length bytes
LargeBodyReceived ==
    /\ Invoked /\ call.op = "fetch_url_content" /\ reqs # <<>>
    /\ call.up[1].kind = "http" /\ ~raise_for_status(call.up[1])
    /\ call.up[1].body = "object"
    /\ call.up[1].data.size > max_content_length

\* C29: a response whose body is larger than max_content_length bytes yields
\* the "Content too large" string and no citation, whether or not it has a
\* Content-Length header.  Stated for the invocations whose callback does not
\* raise.
C29_LargeBodyRefused ==
    (LargeBodyReceived /\ ~CallbackFailed) =>
        /\ ~Cited
        /\ pc = "returned"
        /\ \E declared \in {Str(call.up[1].data.content_length),
                            ToString(call.up[1].data.size)} :
              ret = "Content too large (" \o declared \o " bytes). Maximum: "
                    \o ToString(max_content_length)

----------------------------------------------------------------------------
(* The page no strategy finds content on *)

\* none of the three libraries finds content on the page of the invocation:
\* each returns None or raises
NoStrategySucceeds ==
    \A strategy \in {"trafilatura", "readability", "basic"} :
        call.up[1].data.page[strategy].kind # "content"

\* C30: when every extraction strategy that ran failed, fetch_url_content
\* returns "Could not extract content from the page" and emits no citation:
\* the message of a failed extraction is never returned or cited as the
\* content of the page.  Stated for the auto mode and the invocations whose
\* callback does not raise.
C30_NoContentNoDocument ==
    (AutoExtracted /\ NoStrategySucceeds /\ ~CallbackFailed) =>
        /\ ret = "Could not extract content from the page"
        /\ ~Cited

====
